---- MODULE Spec2Model ----
(***************************************************************************)
(* Agent-mention pipeline of the chat application.                         *)
(*                                                                         *)
(*  - src/mention-agents-plan.md: extractAgentMentions and                 *)
(*    parseAgentResponseText, the two text parsers (pure functions);       *)
(*  - src/app/(chat)/transcripts/components/list/transcript-chat-input.tsx *)
(*    POST and handleAgentMentions: the request-scoped orchestration of    *)
(*    the mention runs and of the primary assistant turn.                  *)
(*                                                                         *)
(* A JavaScript string is a sequence of one-character strings.  The two    *)
(* non-ASCII characters of the separator class, U+2013 and U+2014, are the *)
(* atoms "ndash" and "mdash".                                              *)
(***************************************************************************)
EXTENDS Integers, Sequences, FiniteSets, TLC

VARIABLES
  pc,             \* position of POST / handleAgentMentions in the turn
  requestBody,    \* the validated request body (agentMentions)
  userId,         \* databaseUser.id of the requester
  normalizedAgentMentions,  \* POST: lowercased mentions handed to the orchestrator
  mentionIdx,     \* handleAgentMentions: index of the mention of the for-loop
  local,          \* handleAgentMentions: the locals of the current iteration
  stream,         \* every chunk written to the request's writer, in order
  agentMessages,  \* handleAgentMentions: agentMessages array
  dbMessages,     \* handleAgentMentions: dbMessages array
  saved,          \* the batches passed to saveMessages, in call order
  modelCalls,     \* the generateText / streamText invocations, in call order
  uuidCounter,    \* source of generateUUID
  primary,        \* the primary assistant turn: streamText and its merged stream
  turnError,      \* the call whose exception ended execute, "" when none did
  runs,           \* history: what the collaborators answered, per mention
  chat,           \* userId of the stored chat with the request's id, "" when none
  lastContext,    \* updateChatLastContextById: "none", "saved" or "failed"
  fnArg,          \* harness of the pure functions: the argument
  fnRet,          \* harness of the pure functions: the returned value
  lastIndex       \* mentionPattern.lastIndex, the state of the global regex

vars ==
  <<pc, requestBody, userId, normalizedAgentMentions, mentionIdx, local, stream,
    agentMessages, dbMessages, saved, modelCalls, uuidCounter, primary, turnError,
    runs, chat, lastContext, fnArg, fnRet, lastIndex>>

turnVars ==
  <<pc, requestBody, userId, normalizedAgentMentions, mentionIdx, local, stream,
    agentMessages, dbMessages, saved, modelCalls, uuidCounter, primary, turnError,
    runs, chat, lastContext>>

(***************************************************************************)
(* Bounds of the model.                                                    *)
(***************************************************************************)
MaxMentions == 2
MaxInputLen == 4
MaxNameLen == 2
MaxChunks == 1

(***************************************************************************)
(* Characters and the JavaScript string operations the code uses.          *)
(***************************************************************************)
LowerSeq ==
  <<"a", "b", "c", "d", "e", "f", "g", "h", "i", "j", "k", "l", "m",
    "n", "o", "p", "q", "r", "s", "t", "u", "v", "w", "x", "y", "z">>

UpperSeq ==
  <<"A", "B", "C", "D", "E", "F", "G", "H", "I", "J", "K", "L", "M",
    "N", "O", "P", "Q", "R", "S", "T", "U", "V", "W", "X", "Y", "Z">>

LowerLetters == {LowerSeq[k] : k \in 1..26}

UpperLetters == {UpperSeq[k] : k \in 1..26}

Digits == {"0", "1", "2", "3", "4", "5", "6", "7", "8", "9"}

\* [a-z0-9] under the i flag
IsAlnum(c) == c \in LowerLetters \cup UpperLetters \cup Digits

\* \w
IsWord(c) == IsAlnum(c) \/ c = "_"

\* [\w-]
IsSlugTail(c) == IsWord(c) \/ c = "-"

\* \s, and the characters String.prototype.trim removes
IsSpace(c) == c \in {" ", "\t", "\n", "\r", "\f"}

\* [\s:\-\u2013\u2014]
IsSeparator(c) == IsSpace(c) \/ c \in {":", "-", "ndash", "mdash"}

\* . (no s flag): anything but a line terminator
IsDot(c) == c \notin {"\n", "\r"}

Min(a, b) == IF a <= b THEN a ELSE b

ToLowerCh(c) ==
  IF c \in UpperLetters THEN LowerSeq[CHOOSE k \in 1..26 : UpperSeq[k] = c] ELSE c

toLowerCase(s) == [k \in 1..Len(s) |-> ToLowerCh(s[k])]

\* s.slice(from, to) with JavaScript's 0-based, end-exclusive offsets
slice(s, from, to) == SubSeq(s, from + 1, to)

\* the number of consecutive \s characters of s from 1-based position p on
SpaceRunFrom(s, p) ==
  CHOOSE n \in 0..(Len(s) + 1 - p) :
    /\ \A k \in 0..(n - 1) : IsSpace(s[p + k])
    /\ (p + n > Len(s) \/ ~IsSpace(s[p + n]))

\* the number of consecutive [\s:\-\u2013\u2014] characters of s from position p on
SeparatorRunFrom(s, p) ==
  CHOOSE n \in 0..(Len(s) + 1 - p) :
    /\ \A k \in 0..(n - 1) : IsSeparator(s[p + k])
    /\ (p + n > Len(s) \/ ~IsSeparator(s[p + n]))

\* the number of consecutive [\w-] characters of s from position p on
SlugTailRunFrom(s, p) ==
  CHOOSE n \in 0..(Len(s) + 1 - p) :
    /\ \A k \in 0..(n - 1) : IsSlugTail(s[p + k])
    /\ (p + n > Len(s) \/ ~IsSlugTail(s[p + n]))

\* the number of consecutive \s characters of s from its end backwards
SpaceRunBack(s) ==
  CHOOSE n \in 0..Len(s) :
    /\ \A k \in 0..(n - 1) : IsSpace(s[Len(s) - k])
    /\ (n = Len(s) \/ ~IsSpace(s[Len(s) - n]))

trimStart(s) == IF s = <<>> THEN s ELSE SubSeq(s, SpaceRunFrom(s, 1) + 1, Len(s))

trimEnd(s) == SubSeq(s, 1, Len(s) - SpaceRunBack(s))

trim(s) == trimEnd(trimStart(s))

\* s.replace(/^[\s:\-\u2013\u2014]+/, '')
StripLeadingSeparators(s) ==
  IF s = <<>> THEN s ELSE SubSeq(s, SeparatorRunFrom(s, 1) + 1, Len(s))

\* whether t occurs in s at 1-based position p
OccursAt(s, t, p) == p + Len(t) - 1 <= Len(s) /\ SubSeq(s, p, p + Len(t) - 1) = t

\* s.includes(t)
Includes(s, t) == \E p \in 1..(Len(s) + 1) : OccursAt(s, t, p)

(***************************************************************************)
(* src/mention-agents-plan.md: the mention grammar and the extractor.      *)
(***************************************************************************)
\* {0,63} of mentionPattern
MaxSlugTail == 63

\* an absent value (undefined) where a string is expected
Undefined == <<"undefined">>

\* mentionPattern = /@([a-z0-9][\w-]{0,63})/gi tried at 1-based position p:
\* the length of the match, 0 when there is none
MentionMatchLen(s, p) ==
  IF p + 1 <= Len(s) /\ s[p] = "@" /\ IsAlnum(s[p + 1])
  THEN 2 + Min(MaxSlugTail, SlugTailRunFrom(s, p + 2))
  ELSE 0

\* input.matchAll(mentionPattern) from 1-based position p on: the matches in
\* scan order, each with its 0-based index, match[0] and match[1]
RECURSIVE MatchAllFrom(_, _)
MatchAllFrom(s, p) ==
  IF p > Len(s) THEN <<>>
  ELSE LET n == MentionMatchLen(s, p) IN
       IF n > 0
       THEN <<[index |-> p - 1,
               m0 |-> SubSeq(s, p, p + n - 1),
               m1 |-> SubSeq(s, p + 1, p + n - 1)]>> \o MatchAllFrom(s, p + n)
       ELSE MatchAllFrom(s, p + 1)

\* MentionOfMatch with every prompt running to the end of the input
MentionOfMatchToEnd(input, matches, index) ==
  LET match == matches[index]
      rawSlug == trim(match.m1)
      promptStart == match.index + Len(match.m0)
      rawPrompt == slice(input, promptStart, Len(input))
      prompt == trim(StripLeadingSeparators(rawPrompt))
  IN IF rawSlug = <<>>
     THEN [isNull |-> TRUE, slug |-> <<>>, prompt |-> <<>>]
     ELSE [isNull |-> FALSE, slug |-> toLowerCase(rawSlug), prompt |-> prompt]

\* the callback of matches.map: null is [isNull |-> TRUE, ...]
MentionOfMatch(input, matches, index) ==
  LET match == matches[index]
      rawSlug == trim(match.m1)
      matchIndex == match.index
      promptStart == matchIndex + Len(match.m0)
      promptEnd == IF index + 1 <= Len(matches) THEN matches[index + 1].index ELSE Len(input)
      rawPrompt == slice(input, promptStart, promptEnd)
      prompt == trim(StripLeadingSeparators(rawPrompt))
  IN IF rawSlug = <<>>
     THEN [isNull |-> TRUE, slug |-> <<>>, prompt |-> <<>>]
     ELSE [isNull |-> FALSE, slug |-> toLowerCase(rawSlug), prompt |-> prompt]

NotNull(m) == ~m.isNull

extractAgentMentions(input) ==
  IF input = <<>> THEN <<>>
  ELSE LET matches == MatchAllFrom(input, 1)
           mapped == [k \in 1..Len(matches) |-> MentionOfMatch(input, matches, k)]
           kept == SelectSeq(mapped, NotNull)
       IN [k \in 1..Len(kept) |-> [slug |-> kept[k].slug, prompt |-> kept[k].prompt]]

\* extractAgentMentions as a call that reads the module's state: matchAll makes
\* its own copy of mentionPattern, and the copy starts at mentionPattern.lastIndex
extractAgentMentionsAt(input, regexLastIndex) ==
  IF input = <<>> THEN <<>>
  ELSE LET matches == MatchAllFrom(input, regexLastIndex + 1)
           mapped == [k \in 1..Len(matches) |-> MentionOfMatch(input, matches, k)]
           kept == SelectSeq(mapped, NotNull)
       IN [k \in 1..Len(kept) |-> [slug |-> kept[k].slug, prompt |-> kept[k].prompt]]

\* the scan done on mentionPattern itself, as exec or test do: lastIndex is left
\* after the first match, and reset when there is none
LastIndexAfterExec(input, regexLastIndex) ==
  LET matches == MatchAllFrom(input, regexLastIndex + 1)
  IN IF matches = <<>> THEN 0 ELSE matches[1].index + Len(matches[1].m0)

\* mentionPattern.lastIndex after Array.from(input.matchAll(mentionPattern)):
\* the scan advances the copy only
LastIndexAfterMatchAll(input, regexLastIndex) == regexLastIndex

(***************************************************************************)
(* src/mention-agents-plan.md: stripAgentDirectiveText.                    *)
(*                                                                         *)
(* directivePattern is built by new RegExp from a template literal.  In a  *)
(* template literal \s is the letter s and \- is a hyphen, so the class    *)
(* the RegExp constructor receives is [s:-\u2013\u2014]: the letter s, the   *)
(* range from ':' (U+003A) to U+2013, and U+2014.  The flag is i.          *)
(***************************************************************************)
\* the characters of the model's alphabets between U+003A and U+2013
ColonToEnDash ==
  LowerLetters \cup UpperLetters
    \cup {":", ";", "<", "=", ">", "?", "@", "[", "]", "^", "_", "{", "|", "}", "~",
          "ndash"}

\* [s:-\u2013\u2014] as the RegExp constructor receives it
IsDirectiveSeparator(c) == c \in {"s", "S"} \/ c \in ColonToEnDash \/ c = "mdash"

\* the number of consecutive [s:-\u2013\u2014] characters of s from position p on
DirectiveSeparatorRunFrom(s, p) ==
  CHOOSE n \in 0..(Len(s) + 1 - p) :
    /\ \A k \in 0..(n - 1) : IsDirectiveSeparator(s[p + k])
    /\ (p + n > Len(s) \/ ~IsDirectiveSeparator(s[p + n]))

\* whether the literal t matches s at 1-based position p under the i flag
OccursAtIgnoreCase(s, t, p) ==
  /\ p + Len(t) - 1 <= Len(s)
  /\ toLowerCase(SubSeq(s, p, p + Len(t) - 1)) = toLowerCase(t)

\* the lengths of separator run with which directivePattern matches at p:
\* (?!^) refuses offset 0, then '@', the escaped slug, one or more characters
\* of the class, the escaped prompt
DirectiveRuns(output, mention, p) ==
  IF p > 1 /\ OccursAtIgnoreCase(output, <<"@">> \o mention.slug, p)
  THEN LET from == p + 1 + Len(mention.slug)
       IN {n \in 1..DirectiveSeparatorRunFrom(output, from) :
             OccursAtIgnoreCase(output, mention.prompt, from + n)}
  ELSE {}

\* the length of the match of directivePattern at p, 0 when there is none; the
\* + is greedy, so the longest run that lets the prompt match is taken
DirectiveMatchLen(output, mention, p) ==
  LET found == DirectiveRuns(output, mention, p)
  IN IF found = {} THEN 0
     ELSE LET n == CHOOSE n \in found : \A m \in found : m <= n
          IN 1 + Len(mention.slug) + n + Len(mention.prompt)

\* the callback of mentions.forEach: output after one mention
StripDirective(output, mention) ==
  IF mention.prompt = <<>> THEN output
  ELSE LET starts == {p \in 1..Len(output) : DirectiveMatchLen(output, mention, p) > 0}
       IN IF starts = {} THEN output
          ELSE LET p == CHOOSE p \in starts : \A q \in starts : p <= q
                   n == DirectiveMatchLen(output, mention, p)
               IN SubSeq(output, 1, p - 1) \o <<"@">> \o mention.slug
                    \o SubSeq(output, p + n, Len(output))

\* output after the mentions from index k on have been handled
RECURSIVE StripDirectivesFrom(_, _, _)
StripDirectivesFrom(output, mentions, k) ==
  IF k > Len(mentions) THEN output
  ELSE StripDirectivesFrom(StripDirective(output, mentions[k]), mentions, k + 1)

stripAgentDirectiveText(input, mentions) ==
  IF Len(mentions) = 0 THEN input
  ELSE trim(StripDirectivesFrom(input, mentions, 1))

(***************************************************************************)
(* The fixed texts of handleAgentMentions, and the message it builds.      *)
(***************************************************************************)
HeadingPrefix ==
  <<"#", "#", "#", " ", "R", "e", "s", "p", "o", "n", "s", "e", " ", "f", "r", "o", "m",
  " ">>

HeadingLiteral ==
  <<"R", "e", "s", "p", "o", "n", "s", "e", " ", "f", "r", "o", "m", " ", "@">>

NotFoundPrefix ==
  <<"N", "o", " ", "a", "g", "e", "n", "t", " ", "n", "a", "m", "e", "d", " ", "@">>

NotFoundSuffix ==
  <<" ", "i", "s", " ", "a", "v", "a", "i", "l", "a", "b", "l", "e", ".">>

DeniedPrefix ==
  <<"Y", "o", "u", " ", "d", "o", " ", "n", "o", "t", " ", "h", "a", "v", "e", " ", "a",
  "c", "c", "e", "s", "s", " ", "t", "o", " ", "@">>

DeniedSuffix ==
  <<".", " ", "A", "s", "k", " ", "t", "h", "e", " ", "o", "w", "n", "e", "r", " ", "t",
  "o", " ", "m", "a", "k", "e", " ", "i", "t", " ", "p", "u", "b", "l", "i", "c", " ", "o",
  "r", " ", "s", "h", "a", "r", "e", " ", "i", "t", " ", "w", "i", "t", "h", " ", "y", "o",
  "u", ".">>

ErrorPrefix ==
  <<"E", "n", "c", "o", "u", "n", "t", "e", "r", "e", "d", " ", "a", "n", " ", "e", "r",
  "r", "o", "r", " ", "w", "h", "i", "l", "e", " ", "r", "u", "n", "n", "i", "n", "g", " ",
  "@">>

NoResponseText ==
  <<"N", "o", " ", "r", "e", "s", "p", "o", "n", "s", "e", " ", "g", "e", "n", "e", "r",
  "a", "t", "e", "d", ".">>


\* responseHeader: `@${slug}${agentRecord.name ? ` (${agentRecord.name})` : ''}`
ResponseHeader(slug, name) ==
  <<"@">> \o slug \o (IF name # <<>> /\ name # Undefined
                      THEN <<" ", "(">> \o name \o <<")">>
                      ELSE <<>>)

\* textContent: the heading, a blank line, the body
TextContent(responseHeader, responseBody) ==
  HeadingPrefix \o responseHeader \o <<"\n", "\n">> \o responseBody

\* NotFoundBody without the slug
NotFoundBodyNoSlug(slug) == NotFoundPrefix \o NotFoundSuffix

NotFoundBody(slug) == NotFoundPrefix \o slug \o NotFoundSuffix

\* DeniedBody with the text of the not-found branch
DeniedBodyAsNotFound(slug) == NotFoundPrefix \o slug \o NotFoundSuffix

DeniedBody(slug) == DeniedPrefix \o slug \o DeniedSuffix

ErrorBody(slug) == ErrorPrefix \o slug \o <<".">>

(***************************************************************************)
(* src/mention-agents-plan.md: parseAgentResponseText.                     *)
(***************************************************************************)
NullParse == [matched |-> FALSE, slug |-> <<>>, agentName |-> Undefined, body |-> <<>>]

\* the 1-based positions at which the lazy (.+?) of the optional group can stop:
\* a ")" after at least one character, none of them a line terminator
NameCloses(s, nameStart) ==
  {j \in (nameStart + 1)..Len(s) :
     s[j] = ")" /\ \A k \in nameStart..(j - 1) : IsDot(s[k])}

\* agentResponseHeadingPattern =
\*   /^###\s+Response from @([a-z0-9][\w-]*)(?: \((.+?)\))?/i  applied to s
HeadingMatch(s) ==
  IF ~OccursAt(s, <<"#", "#", "#">>, 1) THEN NullParse
  ELSE
  LET ws == SpaceRunFrom(s, 4)
      litPos == 4 + ws
      slugPos == litPos + Len(HeadingLiteral)
  IN
  IF \/ ws = 0
     \/ slugPos > Len(s)
     \/ toLowerCase(SubSeq(s, litPos, slugPos - 1)) # toLowerCase(HeadingLiteral)
     \/ ~IsAlnum(s[slugPos])
  THEN NullParse
  ELSE
  LET slugLen == 1 + SlugTailRunFrom(s, slugPos + 1)
      afterSlug == slugPos + slugLen
      nameStart == afterSlug + 2
      closes == IF OccursAt(s, <<" ", "(">>, afterSlug) THEN NameCloses(s, nameStart) ELSE {}
      close == CHOOSE j \in closes : \A k \in closes : j <= k
  IN [matched |-> TRUE,
      slug |-> SubSeq(s, slugPos, afterSlug - 1),
      agentName |-> IF closes = {} THEN Undefined ELSE SubSeq(s, nameStart, close - 1),
      body |-> IF closes = {} THEN slice(s, afterSlug - 1, Len(s)) ELSE slice(s, close, Len(s))]

parseAgentResponseText(text) ==
  IF text = <<>> THEN NullParse
  ELSE LET trimmed == trimStart(text)
           match == HeadingMatch(trimmed)
       IN IF ~match.matched THEN NullParse
          ELSE [matched |-> TRUE,
                slug |-> toLowerCase(match.slug),
                agentName |-> match.agentName,
                body |-> trimStart(match.body)]

(***************************************************************************)
(* src/components/unified-tool.tsx: pendingAgentStatuses, the placeholders *)
(* the client shows.  A Map is the sequence of its entries in insertion    *)
(* order.                                                                  *)
(***************************************************************************)
\* map.set(entry.key, entry): an existing key keeps its place
MapSet(map, entry) ==
  IF \E k \in DOMAIN map : map[k].key = entry.key
  THEN [k \in DOMAIN map |-> IF map[k].key = entry.key THEN entry ELSE map[k]]
  ELSE Append(map, entry)

\* map.delete(key)
MapDelete(map, key) ==
  LET Other(entry) == entry.key # key
  IN SelectSeq(map, Other)

\* dataStream.forEach from part k on: the last status part of each slug
RECURSIVE StatusMapFrom(_, _, _)
StatusMapFrom(map, dataStream, k) ==
  IF k > Len(dataStream) THEN map
  ELSE LET part == dataStream[k]
           next == IF /\ part.type = "data-agent-status"
                      /\ part.slug # <<>>
                      /\ part.status # ""
                   THEN MapSet(map, [key |-> toLowerCase(part.slug), slug |-> part.slug,
                                     agentName |-> part.agentName, status |-> part.status])
                   ELSE map
       IN StatusMapFrom(next, dataStream, k + 1)

\* textValue: the text of the first text part, '' when there is none
FirstTextValue(message) ==
  LET texts == {k \in DOMAIN message.parts : message.parts[k].type = "text"}
  IN IF texts = {} THEN <<>>
     ELSE message.parts[CHOOSE k \in texts : \A j \in texts : k <= j].text

\* messages.forEach from message k on: a slug that an assistant message's
\* heading names is removed from the map
RECURSIVE ClearAnsweredFrom(_, _, _)
ClearAnsweredFrom(map, messages, k) ==
  IF k > Len(messages) THEN map
  ELSE LET message == messages[k]
           parsed == parseAgentResponseText(FirstTextValue(message))
           next == IF message.role = "assistant" /\ parsed.matched
                   THEN MapDelete(map, toLowerCase(parsed.slug))
                   ELSE map
       IN ClearAnsweredFrom(next, messages, k + 1)

pendingAgentStatuses(dataStream, messages) ==
  LET Started(entry) == entry.status = "started"
  IN SelectSeq(ClearAnsweredFrom(StatusMapFrom(<<>>, dataStream, 1), messages, 1), Started)

(***************************************************************************)
(* src/lib/ai/prompts.ts: systemPrompt.  A fixed text of the file is one   *)
(* element of the sequence, named after its constant or its first words;   *)
(* the interpolated values are sequences of characters.                    *)
(***************************************************************************)
regularPrompt == <<"regularPrompt">>

artifactsPrompt == <<"artifactsPrompt">>

\* a null value where a string is expected
Null == <<"null">>

\* `...${...}\n...`: the template of getRequestPromptFromHints
getRequestPromptFromHints(requestHints) ==
  <<"You have been provided with the following context about the user's request:", "\n",
    "- lat: ">> \o requestHints.latitude
    \o <<"\n", "- lon: ">> \o requestHints.longitude
    \o <<"\n", "- city: ">> \o requestHints.city
    \o <<"\n", "- country: ">> \o requestHints.country
    \o <<"\n", "- email: ">> \o requestHints.email
    \o <<"\n", "- name: ">> \o requestHints.name
    \o <<"\n", "- date: ">> \o requestHints.date
    \o <<"\n", "\n", "Please use these details to provide a more personalized and relevant response when required.">>

\* [...].filter(Boolean).join('\n\n') of the two lines of the agent block
AgentPromptBlock(agentContext) ==
  <<"You are now acting as ", "\"">> \o agentContext.agentName \o <<"\"", ".">>
    \o (IF agentContext.agentPrompt # <<>>
        THEN <<"\n", "\n">> \o agentContext.agentPrompt
        ELSE <<>>)

\* the agentContext of a caller that gives none
NoAgentContext ==
  [given |-> FALSE, agentPrompt |-> <<>>, agentName |-> <<>>, knowledgeFiles |-> <<>>]

systemPrompt(selectedChatModel, requestHints, agentContext) ==
  LET requestPrompt == getRequestPromptFromHints(requestHints)
  IN IF agentContext.given
     THEN regularPrompt \o <<"\n", "\n">> \o requestPrompt \o <<"\n", "\n">>
            \o artifactsPrompt \o <<"\n", "\n">> \o AgentPromptBlock(agentContext)
     ELSE regularPrompt \o <<"\n", "\n">> \o requestPrompt \o <<"\n", "\n">>
            \o artifactsPrompt

\* handleAgentMentions: agentSystemPrompt
AgentSystemPrompt(resolvedModelId, requestHints, agentRecord, knowledgeFiles) ==
  systemPrompt(resolvedModelId, requestHints,
               [given |-> TRUE,
                agentPrompt |-> IF agentRecord.agentPrompt \in {Null, Undefined}
                                THEN <<>> ELSE agentRecord.agentPrompt,
                agentName |-> agentRecord.name,
                knowledgeFiles |-> knowledgeFiles])

(***************************************************************************)
(* The inputs of a turn and the answers of the collaborators.              *)
(***************************************************************************)
UserIds == {"u1", "u2"}

RequesterIds == {"u1"}

\* the mentions a request body carries: agentMentionSchema accepts a slug in
\* either case, and the prompt is optional text
MentionInputs ==
  {[slug |-> <<"o", "p", "s">>, prompt |-> <<>>],
   [slug |-> <<"Q", "A">>, prompt |-> <<" ", "g", "o">>]}

\* a mention agentMentionSchema refuses: its slug starts with "-"
MalformedMention == [slug |-> <<"-", "x">>, prompt |-> <<>>]

\* the lists of a request: any one or two mentions, the same one twice included,
\* and longer lists that go on repeating their first two
AgentMentionLists ==
  {list \in UNION {[1..n -> MentionInputs] : n \in 0..MaxMentions} :
     \A k \in 3..Len(list) : list[k] = list[k - 2]}

\* lists with the refused mention at some place
MalformedMentionLists ==
  {list \in UNION {[1..n -> MentionInputs \cup {MalformedMention}] : n \in 1..MaxMentions} :
     /\ \E k \in DOMAIN list : list[k] = MalformedMention
     /\ \A k \in 3..Len(list) : list[k] = list[k - 2]}

\* the parsed JSON of a request.  agentMentions is optional: given = FALSE is a
\* body without the field.  wellFormed = FALSE is a body that is not JSON or
\* whose other fields (id, message, reasoningEffort, ...) fail the schema.
RequestBodies ==
  [given : {TRUE}, agentMentions : AgentMentionLists, wellFormed : {TRUE}]
    \cup [given : {TRUE}, agentMentions : MalformedMentionLists, wellFormed : {TRUE}]
    \cup {[given |-> FALSE, agentMentions |-> <<>>, wellFormed |-> TRUE],
          [given |-> FALSE, agentMentions |-> <<>>, wellFormed |-> FALSE],
          [given |-> TRUE, agentMentions |-> <<MalformedMention>>, wellFormed |-> FALSE]}

\* the owner of the stored chat that has the request's id, "" when there is none
ChatOwners == {""} \cup UserIds

\* getAgentBySlug returned null
NoAgent == [found |-> FALSE, name |-> <<>>, isPublic |-> FALSE, userId |-> "", vectorStoreId |-> ""]

AgentRecord(name, isPublic, owner, vectorStoreId) ==
  [found |-> TRUE, name |-> name, isPublic |-> isPublic, userId |-> owner,
   vectorStoreId |-> vectorStoreId]

\* agent records of the directory: a private agent of another user, a private
\* agent of the requester with a knowledge store, and a public agent of another
\* user that has no name
AgentRecords ==
  {AgentRecord(<<"O", "p", "s">>, FALSE, "u2", "vs1"),
   AgentRecord(<<"O", "p", "s">>, FALSE, "u1", "vs1"),
   AgentRecord(<<>>, TRUE, "u2", "vs1")}

\* what getAgentBySlug can resolve to
AgentLookupResults == AgentRecords \cup {NoAgent}

\* the messages of the exceptions generateText can throw
ThrownErrors == {<<"E", "1">>, <<"d", "b", ":", "5", "4", "3", "2">>}

\* the messages of the exceptions the agent directory can throw
DirectoryErrors == {<<"d", "b", ":", "5", "4", "3", "2">>}

\* what generateText can resolve to: its text
ModelTexts == {<<>>, <<" ", "o", "k", "\n">>}

(***************************************************************************)
(* Chunks of the writer and chat messages.                                 *)
(***************************************************************************)
NoMessage == [id |-> 0, role |-> "", parts |-> <<>>]

\* a chunk of the stream; `mention` is history: the index of the mention whose
\* loop iteration wrote it, 0 for a chunk of the primary turn
Chunk(type, mention, slug, status, messageId, agentName, message, transient) ==
  [type |-> type, mention |-> mention, slug |-> slug, status |-> status,
   messageId |-> messageId, agentName |-> agentName, message |-> message,
   transient |-> transient]

StatusChunk(mention, slug, status, messageId, agentName) ==
  Chunk("data-agent-status", mention, slug, status, messageId, agentName, NoMessage, TRUE)

AppendMessageChunk(mention, uiMessage) ==
  Chunk("data-appendMessage", mention, <<>>, "", 0, Undefined, uiMessage, FALSE)

PrimaryChunkOf(type) == Chunk(type, 0, <<>>, "", 0, Undefined, NoMessage, FALSE)

NoLocal ==
  [slug |-> <<>>, mentionPrompt |-> <<>>, uiMessageId |-> 0, responseHeader |-> <<>>,
   responseBody |-> <<>>, agentName |-> Undefined, status |-> "finished",
   agentRecord |-> NoAgent, agentVectorStoreId |-> "", knowledgeFiles |-> "none"]

IdlePrimary == [state |-> "idle", chunks |-> 0]

(***************************************************************************)
(* createToolRegistry, and the two places that choose the active tools of  *)
(* a model run.  A tool map is the sequence of its keys in insertion       *)
(* order, which is the order of Object.keys.                               *)
(***************************************************************************)
\* the tools of the object literal
BaseToolIds ==
  <<"requestSuggestions", "searchTranscriptsByKeyword", "searchTranscriptsByUser",
    "listAccessibleSlackChannels", "fetchSlackChannelHistory", "getSlackThreadReplies",
    "getBulkSlackHistory", "listGoogleCalendarEvents", "listGmailMessages",
    "getGmailMessageDetails">>

\* createToolRegistry with get_file_contents registered only for a vector store
createToolRegistryFilesOnlyWithStore(vectorStoreId, providerNamespace, includeTranscriptDetails) ==
  LET fileSearchRegistered == providerNamespace = "openai" /\ vectorStoreId # ""
  IN [tools |-> BaseToolIds
                  \o (IF fileSearchRegistered THEN <<"file_search">> ELSE <<>>)
                  \o (IF vectorStoreId # "" THEN <<"get_file_contents">> ELSE <<>>)
                  \o (IF includeTranscriptDetails THEN <<"getTranscriptDetails">> ELSE <<>>),
      nonConfigurableToolIds |->
        IF vectorStoreId # ""
        THEN {"get_file_contents"}
               \cup (IF fileSearchRegistered THEN {"file_search"} ELSE {})
        ELSE {},
      fileSearchRegistered |-> fileSearchRegistered,
      vectorStoreIds |-> IF fileSearchRegistered THEN {vectorStoreId} ELSE {},
      fileContentsStore |-> vectorStoreId]

createToolRegistry(vectorStoreId, providerNamespace, includeTranscriptDetails) ==
  LET fileSearchRegistered == providerNamespace = "openai" /\ vectorStoreId # ""
  IN [tools |-> BaseToolIds
                  \o (IF fileSearchRegistered THEN <<"file_search">> ELSE <<>>)
                  \o <<"get_file_contents">>
                  \o (IF includeTranscriptDetails THEN <<"getTranscriptDetails">> ELSE <<>>),
      nonConfigurableToolIds |->
        IF vectorStoreId # ""
        THEN {"get_file_contents"}
               \cup (IF fileSearchRegistered THEN {"file_search"} ELSE {})
        ELSE {},
      fileSearchRegistered |-> fileSearchRegistered,
      \* the store file_search and get_file_contents are bound to
      vectorStoreIds |-> IF fileSearchRegistered THEN {vectorStoreId} ELSE {},
      fileContentsStore |-> vectorStoreId]

\* the elements of a list
Elements(list) == {list[k] : k \in DOMAIN list}

\* availableToolIds.filter(requested or pinned)
FilterActive(availableToolIds, requestedToolSet, nonConfigurableToolIds) ==
  LET Keep(toolId) == toolId \in requestedToolSet \/ toolId \in nonConfigurableToolIds
  IN SelectSeq(availableToolIds, Keep)

\* activeToolsForAgent with the primary turn's test of requestedActiveTools
ActiveToolsForAgentAsPrimary(requestedActiveTools, registry) ==
  LET availableToolIds == registry.tools
      requestedToolSet ==
        IF requestedActiveTools # Undefined
        THEN Elements(requestedActiveTools) ELSE Elements(availableToolIds)
  IN FilterActive(availableToolIds, requestedToolSet, registry.nonConfigurableToolIds)

\* handleAgentMentions: activeToolsForAgent
ActiveToolsForAgent(requestedActiveTools, registry) ==
  LET availableToolIds == registry.tools
      requestedToolSet ==
        IF requestedActiveTools # Undefined /\ Len(requestedActiveTools) > 0
        THEN Elements(requestedActiveTools) ELSE Elements(availableToolIds)
      filtered ==
        FilterActive(availableToolIds, requestedToolSet, registry.nonConfigurableToolIds)
  IN IF Len(filtered) = 0 THEN availableToolIds ELSE filtered

\* activeToolsForRun without the exemption of the pinned tools
ActiveToolsForRunUnpinned(requestedActiveTools, registry) ==
  LET availableToolIds == registry.tools
      requestedToolSet ==
        IF requestedActiveTools # Undefined
        THEN Elements(requestedActiveTools) ELSE Elements(availableToolIds)
  IN FilterActive(availableToolIds, requestedToolSet, {})

\* POST: activeToolsForRun
ActiveToolsForRun(requestedActiveTools, registry) ==
  LET availableToolIds == registry.tools
      requestedToolSet ==
        IF requestedActiveTools # Undefined
        THEN Elements(requestedActiveTools) ELSE Elements(availableToolIds)
  IN FilterActive(availableToolIds, requestedToolSet, registry.nonConfigurableToolIds)

(***************************************************************************)
(* POST: from the validated body to the stream's execute callback.         *)
(***************************************************************************)
NonEmptySlug(mention) == Len(mention.slug) > 0

\* POST: normalizedAgentMentions
NormalizeMentions(body) ==
  IF body.given
  THEN SelectSeq([k \in 1..Len(body.agentMentions) |->
                    [slug |-> toLowerCase(body.agentMentions[k].slug),
                     prompt |-> body.agentMentions[k].prompt]],
                 NonEmptySlug)
  ELSE <<>>

\* postRequestBodySchema.parse passing every body whose other fields are right
ValidBodyMentionsUnchecked(body) == body.wellFormed

\* agentMentionSchema: 1 to 64 characters matching /^[a-z0-9][\w-]{0,63}$/i
ValidMention(mention) ==
  /\ Len(mention.slug) >= 1
  /\ Len(mention.slug) <= MaxSlugTail + 1
  /\ IsAlnum(mention.slug[1])
  /\ \A k \in 2..Len(mention.slug) : IsSlugTail(mention.slug[k])

\* postRequestBodySchema.parse(json) does not throw
ValidBody(body) ==
  /\ body.wellFormed
  /\ body.given => \A k \in DOMAIN body.agentMentions : ValidMention(body.agentMentions[k])

\* POST: the body is parsed; a body the schema refuses is answered bad_request:api
PostParseBody ==
  /\ pc = "POST"
  /\ pc' = IF ValidBody(requestBody) THEN "checkChat" ELSE "bad_request"
  /\ UNCHANGED <<requestBody, userId, normalizedAgentMentions, mentionIdx, local,
                 stream, agentMessages, dbMessages, saved, modelCalls, uuidCounter,
                 primary, turnError, runs, chat, lastContext, fnArg, fnRet, lastIndex>>

\* PostCheckChat without the comparison of the chat's owner
PostCheckChatAnyOwner ==
  /\ pc = "checkChat"
  /\ chat' = (IF chat = "" THEN userId ELSE chat)
  /\ pc' = "normalize"
  /\ UNCHANGED <<requestBody, userId, normalizedAgentMentions, mentionIdx, local,
                 stream, agentMessages, dbMessages, saved, modelCalls, uuidCounter,
                 primary, turnError, runs, lastContext, fnArg, fnRet, lastIndex>>

\* POST: a chat that does not exist is saved for the requester; a chat of another
\* user is answered forbidden:chat
PostCheckChat ==
  /\ pc = "checkChat"
  /\ IF chat = ""
     THEN chat' = userId /\ pc' = "normalize"
     ELSE IF chat # userId
     THEN chat' = chat /\ pc' = "forbidden"
     ELSE chat' = chat /\ pc' = "normalize"
  /\ UNCHANGED <<requestBody, userId, normalizedAgentMentions, mentionIdx, local,
                 stream, agentMessages, dbMessages, saved, modelCalls, uuidCounter,
                 primary, turnError, runs, lastContext, fnArg, fnRet, lastIndex>>

PostNormalizeMentions ==
  /\ pc = "normalize"
  /\ normalizedAgentMentions' = NormalizeMentions(requestBody)
  /\ pc' = "saveUserMessage"
  /\ UNCHANGED <<requestBody, userId, mentionIdx, local, stream, agentMessages,
                 dbMessages, saved, modelCalls, uuidCounter, primary, turnError,
                 runs, chat, lastContext, fnArg, fnRet, lastIndex>>

\* PostSaveUserMessage without its saveMessages call
PostSaveUserMessageSkipped ==
  /\ pc = "saveUserMessage"
  /\ uuidCounter' = uuidCounter + 1
  /\ pc' = "execute"
  /\ UNCHANGED <<requestBody, userId, normalizedAgentMentions, mentionIdx, local,
                 stream, agentMessages, dbMessages, saved, modelCalls, primary,
                 turnError, runs, chat, lastContext, fnArg, fnRet, lastIndex>>

\* POST: the user's message is saved, then the stream id is created
PostSaveUserMessage ==
  /\ pc = "saveUserMessage"
  /\ saved' = Append(saved, [kind |-> "user", ids |-> <<>>, ok |-> TRUE])
  /\ uuidCounter' = uuidCounter + 1
  /\ pc' = "execute"
  /\ UNCHANGED <<requestBody, userId, normalizedAgentMentions, mentionIdx, local,
                 stream, agentMessages, dbMessages, modelCalls, primary, turnError,
                 runs, chat, lastContext, fnArg, fnRet, lastIndex>>

\* ExecuteBegin calling handleAgentMentions whatever the list holds
ExecuteBeginAlways ==
  /\ pc = "execute"
  /\ pc' = "mentionStart" /\ mentionIdx' = 1
  /\ UNCHANGED <<requestBody, userId, normalizedAgentMentions, local, stream,
                 agentMessages, dbMessages, saved, modelCalls, uuidCounter, primary,
                 turnError, runs, chat, lastContext, fnArg, fnRet, lastIndex>>

\* execute: the tool registry is built; handleAgentMentions is called, and
\* awaited, when there are mentions
ExecuteBegin ==
  /\ pc = "execute"
  /\ IF Len(normalizedAgentMentions) > 0
     THEN pc' = "mentionStart" /\ mentionIdx' = 1
     ELSE pc' = "primary" /\ mentionIdx' = mentionIdx
  /\ UNCHANGED <<requestBody, userId, normalizedAgentMentions, local, stream,
                 agentMessages, dbMessages, saved, modelCalls, uuidCounter, primary,
                 turnError, runs, chat, lastContext, fnArg, fnRet, lastIndex>>

(***************************************************************************)
(* handleAgentMentions: one iteration of the for-loop per mention.         *)
(***************************************************************************)
\* the loop taking the mentions from the last to the first
MentionOfIterationReversed(mentions, idx) == mentions[Len(mentions) + 1 - idx]

\* for (const mention of mentions): the mention of the idx-th iteration
MentionOfIteration(mentions, idx) == mentions[idx]

\* MentionStart without the 'started' status chunk
MentionStartSilent ==
  /\ pc = "mentionStart"
  /\ mentionIdx <= Len(normalizedAgentMentions)
  /\ LET mention == MentionOfIteration(normalizedAgentMentions, mentionIdx) IN
     /\ local' = [NoLocal EXCEPT !.slug = mention.slug,
                                 !.mentionPrompt = trim(mention.prompt),
                                 !.uiMessageId = uuidCounter + 1,
                                 !.responseHeader = <<"@">> \o mention.slug]
     /\ runs' = Append(runs, [slug |-> mention.slug, lookup |-> "pending",
                              agentRecord |-> NoAgent, files |-> "none",
                              generated |-> "none", error |-> <<>>])
  /\ uuidCounter' = uuidCounter + 1
  /\ pc' = "lookup"
  /\ UNCHANGED <<requestBody, userId, normalizedAgentMentions, mentionIdx, stream,
                 agentMessages, dbMessages, saved, modelCalls, primary, turnError,
                 chat, lastContext, fnArg, fnRet, lastIndex>>

\* the head of the loop body: the locals, and the 'started' status chunk
MentionStart ==
  /\ pc = "mentionStart"
  /\ mentionIdx <= Len(normalizedAgentMentions)
  /\ LET mention == MentionOfIteration(normalizedAgentMentions, mentionIdx) IN
     /\ local' = [NoLocal EXCEPT !.slug = mention.slug,
                                 !.mentionPrompt = trim(mention.prompt),
                                 !.uiMessageId = uuidCounter + 1,
                                 !.responseHeader = <<"@">> \o mention.slug]
     /\ stream' = Append(stream,
                         StatusChunk(mentionIdx, mention.slug, "started", 0, Undefined))
     /\ runs' = Append(runs, [slug |-> mention.slug, lookup |-> "pending",
                              agentRecord |-> NoAgent, files |-> "none",
                              generated |-> "none", error |-> <<>>])
  /\ uuidCounter' = uuidCounter + 1
  /\ pc' = "lookup"
  /\ UNCHANGED <<requestBody, userId, normalizedAgentMentions, mentionIdx,
                 agentMessages, dbMessages, saved, modelCalls, primary, turnError,
                 chat, lastContext, fnArg, fnRet, lastIndex>>

\* IsAccessible with the owner comparison inverted
IsAccessibleInverted(agentRecord, requester) ==
  agentRecord.isPublic \/ agentRecord.userId # requester

\* the visibility test of line 938, negated: the record may be used by the requester
IsAccessible(agentRecord, requester) ==
  agentRecord.isPublic \/ agentRecord.userId = requester

\* CatchError re-throwing: the exception leaves handleAgentMentions
CatchErrorRethrow(error) ==
  /\ local' = [local EXCEPT !.responseBody = ErrorBody(local.slug), !.status = "error"]
  /\ pc' = "failed"

\* CatchError putting the message of the exception into the body
CatchErrorLeaky(error) ==
  /\ local' = [local EXCEPT !.responseBody = error, !.status = "error"]
  /\ pc' = "emit"

\* the catch block: the error is logged to the console; the fixed body, status
\* 'error', and on to the message
CatchError(error) ==
  /\ local' = [local EXCEPT !.responseBody = ErrorBody(local.slug), !.status = "error"]
  /\ pc' = "emit"

\* agentVectorStoreId taken from the record whoever owns it
AgentVectorStoreIdOfRecord(agentRecord, requester) == agentRecord.vectorStoreId

\* agentVectorStoreId
AgentVectorStoreId(agentRecord, requester) ==
  IF agentRecord.vectorStoreId # "" /\ agentRecord.userId = requester
  THEN agentRecord.vectorStoreId
  ELSE ""

\* await getAgentBySlug, and the branches on its record
LookupAgent ==
  /\ pc = "lookup"
  /\ \/ \E error \in DirectoryErrors :
          /\ CatchError(error)
          /\ runs' = [runs EXCEPT ![mentionIdx].lookup = "throw",
                                  ![mentionIdx].error = error]
     \/ \E agentRecord \in AgentLookupResults :
          IF ~agentRecord.found
          THEN /\ local' = [local EXCEPT !.responseBody = NotFoundBody(local.slug)]
               /\ runs' = [runs EXCEPT ![mentionIdx].lookup = "returned"]
               /\ pc' = "emit"
          ELSE IF ~IsAccessible(agentRecord, userId)
          THEN /\ local' = [local EXCEPT !.responseBody = DeniedBody(local.slug)]
               /\ runs' = [runs EXCEPT ![mentionIdx].lookup = "returned",
                                       ![mentionIdx].agentRecord = agentRecord]
               /\ pc' = "emit"
          ELSE /\ local' = [local EXCEPT
                              !.agentName = agentRecord.name,
                              !.responseHeader = ResponseHeader(local.slug, agentRecord.name),
                              !.agentRecord = agentRecord,
                              !.agentVectorStoreId = AgentVectorStoreId(agentRecord, userId)]
               /\ runs' = [runs EXCEPT ![mentionIdx].lookup = "returned",
                                       ![mentionIdx].agentRecord = agentRecord]
               /\ pc' = IF AgentVectorStoreId(agentRecord, userId) # ""
                        THEN "files" ELSE "generate"
  /\ UNCHANGED <<requestBody, userId, normalizedAgentMentions, mentionIdx, stream,
                 agentMessages, dbMessages, saved, modelCalls, uuidCounter, primary,
                 turnError, chat, lastContext, fnArg, fnRet, lastIndex>>

\* LoadKnowledgeFiles without its own try: the rejection reaches the catch block
\* of the iteration
LoadKnowledgeFilesUncaught ==
  /\ pc = "files"
  /\ \/ /\ local' = [local EXCEPT !.knowledgeFiles = "loaded"]
        /\ runs' = [runs EXCEPT ![mentionIdx].files = "loaded"]
        /\ pc' = "generate"
     \/ \E error \in ThrownErrors :
          /\ CatchError(error)
          /\ runs' = [runs EXCEPT ![mentionIdx].files = "failed",
                                  ![mentionIdx].error = error]
  /\ UNCHANGED <<requestBody, userId, normalizedAgentMentions, mentionIdx, stream,
                 agentMessages, dbMessages, saved, modelCalls, uuidCounter, primary,
                 turnError, chat, lastContext, fnArg, fnRet, lastIndex>>

\* await getVectorStoreFilesByUser inside its own try: a failure is only warned
\* about, and the run goes on with no knowledge files
LoadKnowledgeFiles ==
  /\ pc = "files"
  /\ \E outcome \in {"loaded", "failed"} :
       /\ local' = [local EXCEPT !.knowledgeFiles = outcome]
       /\ runs' = [runs EXCEPT ![mentionIdx].files = outcome]
  /\ pc' = "generate"
  /\ UNCHANGED <<requestBody, userId, normalizedAgentMentions, mentionIdx, stream,
                 agentMessages, dbMessages, saved, modelCalls, uuidCounter, primary,
                 turnError, chat, lastContext, fnArg, fnRet, lastIndex>>

\* responseBody from the text generateText resolved to
BodyOfText(text) == IF Len(trim(text)) > 0 THEN trim(text) ELSE NoResponseText

\* generateText given the messages generated so far in the turn
MentionRunMessagesRunning(generated) == [k \in DOMAIN generated |-> generated[k].id]

\* the messages of the turn in the input of a mention's generateText: its input
\* is system (the agent's prompt) and prompt (buildAgentInstruction of the user's
\* message, the mention's prompt and the slug), and no message list
MentionRunMessages(generated) == <<>>

\* await generateText for the resolved agent
GenerateText ==
  /\ pc = "generate"
  /\ modelCalls' = Append(modelCalls,
                          [fn |-> "generateText", mention |-> mentionIdx,
                           slug |-> local.slug, agentRecord |-> local.agentRecord,
                           messages |-> MentionRunMessages(agentMessages),
                           vectorStoreId |-> local.agentVectorStoreId])
  /\ \/ \E error \in ThrownErrors :
          /\ CatchError(error)
          /\ runs' = [runs EXCEPT ![mentionIdx].generated = "throw",
                                  ![mentionIdx].error = error]
     \/ \E text \in ModelTexts :
          /\ local' = [local EXCEPT !.responseBody = BodyOfText(text)]
          /\ runs' = [runs EXCEPT ![mentionIdx].generated = "ok"]
          /\ pc' = "emit"
  /\ UNCHANGED <<requestBody, userId, normalizedAgentMentions, mentionIdx, stream,
                 agentMessages, dbMessages, saved, uuidCounter, primary, turnError,
                 chat, lastContext, fnArg, fnRet, lastIndex>>

\* uiMessage
\* uiMessage with an id of its own, drawn after uiMessageId
UiMessageOwnId(loc) ==
  [id |-> loc.uiMessageId + 1, role |-> "assistant",
   parts |-> <<[type |-> "text", text |-> TextContent(loc.responseHeader, loc.responseBody)]>>]

UiMessage(loc) ==
  [id |-> loc.uiMessageId, role |-> "assistant",
   parts |-> <<[type |-> "text", text |-> TextContent(loc.responseHeader, loc.responseBody)]>>]

\* ResultChunks with the terminal status written before the message
ResultChunksStatusFirst(idx, loc) ==
  <<StatusChunk(idx, loc.slug, loc.status, loc.uiMessageId, loc.agentName),
    AppendMessageChunk(idx, UiMessage(loc))>>

\* the two writes that end an iteration: the message, then the terminal status
ResultChunks(idx, loc) ==
  <<AppendMessageChunk(idx, UiMessage(loc)),
    StatusChunk(idx, loc.slug, loc.status, loc.uiMessageId, loc.agentName)>>

\* EmitResult saving the message of each mention as soon as it is built
EmitResultSavingEach ==
  /\ pc = "emit"
  /\ agentMessages' = Append(agentMessages, UiMessage(local))
  /\ dbMessages' = Append(dbMessages, [id |-> local.uiMessageId, role |-> "assistant",
                                      parts |-> UiMessage(local).parts])
  /\ saved' = Append(saved, [kind |-> "mentions", ok |-> TRUE,
                             ids |-> <<local.uiMessageId>>])
  /\ stream' = stream \o ResultChunks(mentionIdx, local)
  /\ IF mentionIdx < Len(normalizedAgentMentions)
     THEN pc' = "mentionStart" /\ mentionIdx' = mentionIdx + 1
     ELSE pc' = "primary" /\ mentionIdx' = mentionIdx
  /\ local' = NoLocal
  /\ UNCHANGED <<requestBody, userId, normalizedAgentMentions, modelCalls,
                 uuidCounter, primary, turnError, runs, chat, lastContext, fnArg,
                 fnRet, lastIndex>>

\* the tail of the loop body: the message is built, pushed and written, the
\* terminal status is written, and the loop goes on or ends
EmitResult ==
  /\ pc = "emit"
  /\ agentMessages' = Append(agentMessages, UiMessage(local))
  /\ dbMessages' = Append(dbMessages, [id |-> local.uiMessageId, role |-> "assistant",
                                      parts |-> UiMessage(local).parts])
  /\ stream' = stream \o ResultChunks(mentionIdx, local)
  /\ IF mentionIdx < Len(normalizedAgentMentions)
     THEN pc' = "mentionStart" /\ mentionIdx' = mentionIdx + 1
     ELSE pc' = "persist" /\ mentionIdx' = mentionIdx
  /\ local' = NoLocal
  /\ UNCHANGED <<requestBody, userId, normalizedAgentMentions, saved, modelCalls,
                 uuidCounter, primary, turnError, runs, chat, lastContext, fnArg, fnRet, lastIndex>>

\* after the loop: one saveMessages with dbMessages; its rejection is not caught
\* here, so it rejects execute and the stream reports an error
PersistBatch ==
  /\ pc = "persist"
  /\ \/ /\ saved' = Append(saved, [kind |-> "mentions", ok |-> TRUE,
                                   ids |-> [k \in 1..Len(dbMessages) |-> dbMessages[k].id]])
        /\ pc' = "primary"
        /\ UNCHANGED <<stream, turnError>>
     \/ /\ saved' = Append(saved, [kind |-> "mentions", ok |-> FALSE,
                                   ids |-> [k \in 1..Len(dbMessages) |-> dbMessages[k].id]])
        /\ pc' = "failed"
        /\ turnError' = "saveMessages"
        /\ stream' = Append(stream, PrimaryChunkOf("error"))
  /\ UNCHANGED <<requestBody, userId, normalizedAgentMentions, mentionIdx, local,
                 agentMessages, dbMessages, modelCalls, uuidCounter, primary, runs,
                 chat, lastContext, fnArg, fnRet, lastIndex>>

(***************************************************************************)
(* execute, after the mentions: the primary assistant turn.                *)
(***************************************************************************)
\* handleAgentMentions called without await: streamText is called while it runs
MentionsNotAwaited ==
  pc \in {"primary", "lookup", "files", "generate", "emit", "mentionStart", "persist"}

\* the point of execute at which streamText is called: handleAgentMentions, when
\* called, has been awaited
MentionsAwaited == pc = "primary"

\* the messages of the turn in the input of streamText: uiMessages, to which
\* the messages handleAgentMentions returned were pushed
PrimaryMessages(generated) == [k \in DOMAIN generated |-> generated[k].id]

\* streamText is called and its stream is merged into the writer
StartPrimary ==
  /\ MentionsAwaited
  /\ primary.state = "idle"
  /\ modelCalls' = Append(modelCalls, [fn |-> "streamText", mention |-> 0,
                                       slug |-> <<>>, agentRecord |-> NoAgent,
                                       messages |-> PrimaryMessages(agentMessages)])
  /\ primary' = [state |-> "streaming", chunks |-> 0]
  /\ pc' = IF pc = "primary" THEN "executed" ELSE pc
  /\ UNCHANGED <<requestBody, userId, normalizedAgentMentions, mentionIdx, local,
                 stream, agentMessages, dbMessages, saved, uuidCounter, turnError,
                 runs, chat, lastContext, fnArg, fnRet, lastIndex>>

\* a part of the primary answer reaches the writer through the merged stream
PrimaryChunk ==
  /\ primary.state = "streaming"
  /\ primary.chunks < MaxChunks
  /\ stream' = Append(stream, PrimaryChunkOf("text-delta"))
  /\ primary' = [primary EXCEPT !.chunks = primary.chunks + 1]
  /\ UNCHANGED <<pc, requestBody, userId, normalizedAgentMentions, mentionIdx, local,
                 agentMessages, dbMessages, saved, modelCalls, uuidCounter, turnError,
                 runs, chat, lastContext, fnArg, fnRet, lastIndex>>

\* streamText's onFinish: the usage is written to the writer
PrimaryFinish ==
  /\ primary.state = "streaming"
  /\ stream' = Append(stream, PrimaryChunkOf("data-usage"))
  /\ primary' = [primary EXCEPT !.state = "finished"]
  /\ UNCHANGED <<pc, requestBody, userId, normalizedAgentMentions, mentionIdx, local,
                 agentMessages, dbMessages, saved, modelCalls, uuidCounter, turnError,
                 runs, chat, lastContext, fnArg, fnRet, lastIndex>>

\* the stream's onFinish: the response messages are saved, then the usage of
\* the turn is stored with the chat inside a try whose catch only warns; a
\* rejection of saveMessages is not caught and leaves the callback
StreamOnFinish ==
  /\ pc = "executed"
  /\ primary.state = "finished"
  /\ \/ /\ saved' = Append(saved, [kind |-> "response", ids |-> <<uuidCounter + 1>>,
                                   ok |-> TRUE])
        /\ lastContext' \in {"saved", "failed"}
        /\ UNCHANGED turnError
     \/ /\ saved' = Append(saved, [kind |-> "response", ids |-> <<uuidCounter + 1>>,
                                   ok |-> FALSE])
        /\ turnError' = "onFinish"
        /\ UNCHANGED lastContext
  /\ uuidCounter' = uuidCounter + 1
  /\ pc' = "done"
  /\ UNCHANGED <<requestBody, userId, normalizedAgentMentions, mentionIdx, local,
                 stream, agentMessages, dbMessages, modelCalls, primary, runs, chat,
                 fnArg, fnRet, lastIndex>>

(***************************************************************************)
(* The turn.                                                               *)
(***************************************************************************)
\* the harness of the pure functions before a call, and when it is not in use
NotCalled == [stage |-> "idle", value |-> <<>>]

Init ==
  /\ pc = "POST"
  /\ requestBody \in RequestBodies
  /\ userId \in RequesterIds
  /\ normalizedAgentMentions = <<>>
  /\ mentionIdx = 0
  /\ local = NoLocal
  /\ stream = <<>>
  /\ agentMessages = <<>>
  /\ dbMessages = <<>>
  /\ saved = <<>>
  /\ modelCalls = <<>>
  /\ uuidCounter = 0
  /\ primary = IdlePrimary
  /\ turnError = ""
  /\ runs = <<>>
  /\ chat \in ChatOwners
  /\ lastContext = "none"
  /\ fnArg = <<>>
  /\ fnRet = NotCalled
  /\ lastIndex = 0

Next ==
  \/ PostParseBody
  \/ PostCheckChat
  \/ PostNormalizeMentions
  \/ PostSaveUserMessage
  \/ ExecuteBegin
  \/ MentionStart
  \/ LookupAgent
  \/ LoadKnowledgeFiles
  \/ GenerateText
  \/ EmitResult
  \/ PersistBatch
  \/ StartPrimary
  \/ PrimaryChunk
  \/ PrimaryFinish
  \/ StreamOnFinish

Spec == Init /\ [][Next]_vars

\* the request handler is one asynchronous flow: every awaited call settles and
\* the merged stream is read to its end
FairSpec == Spec /\ WF_vars(Next)

(***************************************************************************)
(* The pure functions, applied to inputs drawn from bounded sets.          *)
(***************************************************************************)
\* no turn is in progress
TurnIdle ==
  /\ pc = "idle"
  /\ requestBody = [given |-> FALSE, agentMentions |-> <<>>, wellFormed |-> TRUE]
  /\ userId = "u1"
  /\ normalizedAgentMentions = <<>>
  /\ mentionIdx = 0
  /\ local = NoLocal
  /\ stream = <<>>
  /\ agentMessages = <<>>
  /\ dbMessages = <<>>
  /\ saved = <<>>
  /\ modelCalls = <<>>
  /\ uuidCounter = 0
  /\ primary = IdlePrimary
  /\ turnError = ""
  /\ runs = <<>>
  /\ chat = ""
  /\ lastContext = "none"

ScenarioInput ==
  <<"P", "l", "e", "a", "s", "e", " ", "c", "h", "e", "c", "k", " ", "@", "s", "a", "l",
  "e", "s", "-", "b", "o", "t", ":", " ", "f", "i", "n", "d", " ", "Q", "3", " ", "n", "u",
  "m", "b", "e", "r", "s", " ", "a", "n", "d", " ", "@", "o", "p", "s", " ", "a", "b", "o",
  "u", "t", " ", "d", "e", "p", "l", "o", "y", "s">>

ScenarioSlug1 ==
  <<"s", "a", "l", "e", "s", "-", "b", "o", "t">>

ScenarioPrompt1 ==
  <<"f", "i", "n", "d", " ", "Q", "3", " ", "n", "u", "m", "b", "e", "r", "s", " ", "a",
  "n", "d">>

ScenarioSlug2 ==
  <<"o", "p", "s">>

ScenarioPrompt2 ==
  <<"a", "b", "o", "u", "t", " ", "d", "e", "p", "l", "o", "y", "s">>

DashInput ==
  <<"@", "O", "p", "s", "7", " ", "ndash", "mdash", " ", ":", "x", "	", "@", "_", " ", "@",
  "q">>


\* "@" and MaxSlugTail + 3 letters: a slug longer than the grammar allows
LongSlugInput == <<"@">> \o [k \in 1..(MaxSlugTail + 3) |-> "a"] \o <<" ", "x">>

ExtractAlphabet == {"@", "a", "B", "_", "-", " ", ":"}

ExtractInputs ==
  UNION {[1..n -> ExtractAlphabet] : n \in 0..MaxInputLen}
    \cup {ScenarioInput, DashInput, LongSlugInput}

InitExtract ==
  TurnIdle /\ fnArg \in ExtractInputs /\ fnRet = NotCalled /\ lastIndex = 0

CallExtract ==
  /\ fnRet.stage = "idle"
  /\ fnRet' = [stage |-> "returned", value |-> extractAgentMentionsAt(fnArg, lastIndex)]
  /\ lastIndex' = LastIndexAfterMatchAll(fnArg, lastIndex)
  /\ UNCHANGED <<turnVars, fnArg>>

SpecExtract == InitExtract /\ [][CallExtract]_vars

\* stripAgentDirectiveText on the mentions extracted from the same text
MaxStripLen == 5

StripAlphabet == {"@", "a", " ", ":"}

StripInputs ==
  UNION {[1..n -> StripAlphabet] : n \in 0..MaxStripLen} \cup {ScenarioInput}

InitStrip ==
  TurnIdle /\ fnArg \in StripInputs /\ fnRet = NotCalled /\ lastIndex = 0

CallStrip ==
  /\ fnRet.stage = "idle"
  /\ fnRet' = [stage |-> "returned",
               value |-> stripAgentDirectiveText(fnArg, extractAgentMentions(fnArg))]
  /\ UNCHANGED <<turnVars, fnArg, lastIndex>>

SpecStrip == InitStrip /\ [][CallStrip]_vars

\* the tool registry and the two selections of active tools, for one request
MaxActiveTools == 2

\* the names a caller's activeTools is drawn from: a base tool, the two tools
\* that can be pinned, and a name that is no tool
RequestedToolNames == {"requestSuggestions", "file_search", "get_file_contents", "bogus"}

RequestedActiveToolLists ==
  {Undefined} \cup UNION {[1..n -> RequestedToolNames] : n \in 0..MaxActiveTools}

RegistryContexts ==
  [vectorStoreId : {"", "vs1"}, providerNamespace : {"openai", "xai"},
   includeTranscriptDetails : BOOLEAN, requestedActiveTools : RequestedActiveToolLists]

NoSelection == [registry |-> Undefined, mention |-> Undefined, primary |-> Undefined]

InitTools ==
  /\ TurnIdle
  /\ fnArg \in RegistryContexts
  /\ fnRet = [stage |-> "idle", value |-> NoSelection]
  /\ lastIndex = 0

CallCreateToolRegistry ==
  /\ fnRet.stage = "idle"
  /\ fnRet' = [stage |-> "registry",
               value |-> [NoSelection EXCEPT
                            !.registry = createToolRegistry(fnArg.vectorStoreId,
                                                            fnArg.providerNamespace,
                                                            fnArg.includeTranscriptDetails)]]
  /\ UNCHANGED <<turnVars, fnArg, lastIndex>>

SelectMentionTools ==
  /\ fnRet.stage = "registry"
  /\ fnRet.value.mention = Undefined
  /\ fnRet' = [fnRet EXCEPT !.value.mention =
                 ActiveToolsForAgent(fnArg.requestedActiveTools, fnRet.value.registry)]
  /\ UNCHANGED <<turnVars, fnArg, lastIndex>>

SelectPrimaryTools ==
  /\ fnRet.stage = "registry"
  /\ fnRet.value.primary = Undefined
  /\ fnRet' = [fnRet EXCEPT !.value.primary =
                 ActiveToolsForRun(fnArg.requestedActiveTools, fnRet.value.registry)]
  /\ UNCHANGED <<turnVars, fnArg, lastIndex>>

NextTools == CallCreateToolRegistry \/ SelectMentionTools \/ SelectPrimaryTools

SpecTools == InitTools /\ [][NextTools]_vars

\* the client: the parts of the data stream and the messages of the chat as
\* they arrive; pendingAgentStatuses is recomputed on every change (useMemo)
MaxParts == 3

MaxHistory == 2

ClientSlugs == {<<"o", "p">>, <<"O", "p">>, <<"q">>}

ClientParts ==
  {StatusChunk(0, slug, status, 0, Undefined) :
     slug \in ClientSlugs, status \in {"started", "finished"}}
    \cup {StatusChunk(0, <<"o", "p">>, "error", 0, Undefined),
          StatusChunk(0, <<>>, "started", 0, Undefined),
          PrimaryChunkOf("text-delta")}

ClientMessage(role, parts) == [id |-> 0, role |-> role, parts |-> parts]

\* messages of the chat: an agent's answer, an answer of the primary assistant,
\* a user's message that quotes a heading, an agent's answer after a reasoning part
ClientMessages ==
  {ClientMessage("assistant",
                 <<[type |-> "text",
                    text |-> TextContent(ResponseHeader(<<"o", "p">>, Undefined), <<"o", "k">>)]>>),
   ClientMessage("assistant", <<[type |-> "text", text |-> <<"h", "i">>]>>),
   ClientMessage("user",
                 <<[type |-> "text",
                    text |-> TextContent(ResponseHeader(<<"q">>, Undefined), <<"o", "k">>)]>>),
   ClientMessage("assistant",
                 <<[type |-> "reasoning", text |-> <<"h", "m">>],
                   [type |-> "text",
                    text |-> <<" ">> \o TextContent(ResponseHeader(<<"Q">>, <<"Q", "A">>), <<>>)]>>)}

InitClient ==
  /\ TurnIdle
  /\ fnArg = [dataStream |-> <<>>, messages |-> <<>>]
  /\ fnRet = [stage |-> "rendered", value |-> <<>>]
  /\ lastIndex = 0

\* a part of the response stream reaches the data stream provider
ReceiveDataPart ==
  /\ Len(fnArg.dataStream) < MaxParts
  /\ \E part \in ClientParts :
       /\ fnArg' = [fnArg EXCEPT !.dataStream = Append(@, part)]
       /\ fnRet' = [stage |-> "rendered",
                    value |-> pendingAgentStatuses(fnArg'.dataStream, fnArg'.messages)]
  /\ UNCHANGED <<turnVars, lastIndex>>

\* a message is added to the chat's messages
ReceiveMessage ==
  /\ Len(fnArg.messages) < MaxHistory
  /\ \E message \in ClientMessages :
       /\ fnArg' = [fnArg EXCEPT !.messages = Append(@, message)]
       /\ fnRet' = [stage |-> "rendered",
                    value |-> pendingAgentStatuses(fnArg'.dataStream, fnArg'.messages)]
  /\ UNCHANGED <<turnVars, lastIndex>>

NextClient == ReceiveDataPart \/ ReceiveMessage

SpecClient == InitClient /\ [][NextClient]_vars

\* the system prompt of a mention run, for one agent record and one file list
MaxFiles == 2

KnowledgeFileSummaries ==
  {[id |-> <<"f", "1">>, name |-> <<"a", ".", "m", "d">>, sizeBytes |-> <<"1", "0">>],
   [id |-> <<"f", "2">>, name |-> <<"b", ".", "m", "d">>, sizeBytes |-> Null]}

KnowledgeFileLists == UNION {[1..n -> KnowledgeFileSummaries] : n \in 0..MaxFiles}

PromptAgentRecords ==
  [name : {<<"O", "p", "s">>, <<>>},
   agentPrompt : {Null, <<>>, <<"B", "e", " ", "k", "i", "n", "d">>}]

RequestHintsSet ==
  {[latitude |-> Undefined, longitude |-> Undefined, city |-> Undefined,
    country |-> Undefined, email |-> <<"u", "@", "x">>, name |-> Undefined,
    date |-> <<"2", "0", "2", "5">>],
   [latitude |-> <<"6", "0">>, longitude |-> <<"1", "1">>, city |-> <<"O", "s", "l", "o">>,
    country |-> <<"N", "O">>, email |-> <<"u", "@", "x">>, name |-> <<"U">>,
    date |-> <<"2", "0", "2", "5">>]}

InitPrompt ==
  /\ TurnIdle
  /\ fnArg \in [agentRecord : PromptAgentRecords, knowledgeFiles : KnowledgeFileLists,
                requestHints : RequestHintsSet]
  /\ fnRet = NotCalled
  /\ lastIndex = 0

BuildAgentSystemPrompt ==
  /\ fnRet.stage = "idle"
  /\ fnRet' = [stage |-> "returned",
               value |-> AgentSystemPrompt("chat-model", fnArg.requestHints,
                                           fnArg.agentRecord, fnArg.knowledgeFiles)]
  /\ UNCHANGED <<turnVars, fnArg, lastIndex>>

SpecPrompt == InitPrompt /\ [][BuildAgentSystemPrompt]_vars

(***************************************************************************)
(* DELETE, next to the first steps of a POST of the same user for the      *)
(* same chat id.                                                           *)
(***************************************************************************)
\* a signed-in user: session.user.id is the id the identity provider gives,
\* databaseUser.id the id of the user's row, which is the userId of the chats
\* POST saves.  getDatabaseUserFromWorkOS is not part of the sources: the two
\* ids may differ or be the same value.
SessionUsers ==
  {[sessionUserId |-> "w1", databaseUserId |-> "u1"],
   [sessionUserId |-> "u2", databaseUserId |-> "u2"]}

\* a DELETE request: whether the id parameter is there, whether withAuth gave
\* a user, whether that user has a database row
DeleteRequests ==
  [idGiven : BOOLEAN, authenticated : BOOLEAN, user : SessionUsers,
   databaseUserFound : BOOLEAN]

\* the response of DELETE
DeleteResponse(request, storedChat) ==
  IF ~request.idGiven THEN "bad_request:api"
  ELSE IF ~request.authenticated THEN "unauthorized:chat"
  ELSE IF ~request.databaseUserFound THEN "unauthorized:chat"
  ELSE IF storedChat # request.user.sessionUserId THEN "forbidden:chat"
  ELSE "deleted"

InitDelete ==
  /\ fnArg \in DeleteRequests
  /\ fnRet = NotCalled
  /\ pc = (IF fnArg.authenticated /\ fnArg.databaseUserFound THEN "POST" ELSE "idle")
  /\ requestBody \in {[given |-> FALSE, agentMentions |-> <<>>, wellFormed |-> TRUE],
                      [given |-> FALSE, agentMentions |-> <<>>, wellFormed |-> FALSE]}
  /\ userId = fnArg.user.databaseUserId
  /\ chat \in ChatOwners
  /\ normalizedAgentMentions = <<>>
  /\ mentionIdx = 0
  /\ local = NoLocal
  /\ stream = <<>>
  /\ agentMessages = <<>>
  /\ dbMessages = <<>>
  /\ saved = <<>>
  /\ modelCalls = <<>>
  /\ uuidCounter = 0
  /\ primary = IdlePrimary
  /\ turnError = ""
  /\ runs = <<>>
  /\ lastContext = "none"
  /\ lastIndex = 0

\* DELETE: the chat is removed when chat?.userId is session.user.id
DeleteChat ==
  /\ fnRet.stage = "idle"
  /\ fnRet' = [stage |-> "returned",
               value |-> [response |-> DeleteResponse(fnArg, chat), chat |-> chat]]
  /\ chat' = (IF DeleteResponse(fnArg, chat) = "deleted" THEN "" ELSE chat)
  /\ UNCHANGED <<pc, requestBody, userId, normalizedAgentMentions, mentionIdx, local,
                 stream, agentMessages, dbMessages, saved, modelCalls, uuidCounter,
                 primary, turnError, runs, lastContext, fnArg, lastIndex>>

NextDelete == DeleteChat \/ PostParseBody \/ PostCheckChat

SpecDelete == InitDelete /\ [][NextDelete]_vars

\* the text a user types for a turn
TurnAlphabet == {"@", "a", " "}

TurnInputs == UNION {[1..n -> TurnAlphabet] : n \in 0..MaxInputLen}

\* a turn that starts from the user's text
InitInput ==
  /\ pc = "input"
  /\ fnArg \in TurnInputs
  /\ fnRet = NotCalled
  /\ lastIndex = 0
  /\ requestBody = [given |-> FALSE, agentMentions |-> <<>>, wellFormed |-> TRUE]
  /\ userId \in RequesterIds
  /\ normalizedAgentMentions = <<>>
  /\ mentionIdx = 0
  /\ local = NoLocal
  /\ stream = <<>>
  /\ agentMessages = <<>>
  /\ dbMessages = <<>>
  /\ saved = <<>>
  /\ modelCalls = <<>>
  /\ uuidCounter = 0
  /\ primary = IdlePrimary
  /\ turnError = ""
  /\ runs = <<>>
  /\ chat \in ChatOwners
  /\ lastContext = "none"

\* the data flow of the pipeline: the mentions extracted from the user's text
\* are the agentMentions of the request
ComposeRequest ==
  /\ pc = "input"
  /\ fnRet' = [stage |-> "returned", value |-> extractAgentMentions(fnArg)]
  /\ requestBody' = [given |-> TRUE, agentMentions |-> extractAgentMentions(fnArg),
                      wellFormed |-> TRUE]
  /\ pc' = "POST"
  /\ UNCHANGED <<userId, normalizedAgentMentions, mentionIdx, local, stream,
                 agentMessages, dbMessages, saved, modelCalls, uuidCounter, primary,
                 turnError, runs, chat, lastContext, fnArg, lastIndex>>

NextInput == ComposeRequest \/ Next

SpecInput == InitInput /\ [][NextInput]_vars

\* the number of calls of extractAgentMentions in a row
MaxCalls == 3

\* texts for repeated calls: none, one and two mentions, a mention at the start
\* and further in, an "@" that starts none
CallInputs ==
  {<<>>,
   <<"@", "a">>,
   <<"@", "a", " ", "b", "@", "c">>,
   <<"x", " ", "@", "a">>,
   <<"@", "A", ":", "b">>,
   <<"a", "@">>}

NoCalls == [stage |-> "idle", value |-> <<>>, results |-> {}, calls |-> 0]

InitCalls == TurnIdle /\ fnArg = <<>> /\ fnRet = NoCalls /\ lastIndex = 0

\* one more call, on any text: its result is recorded with its argument
CallExtractAgain ==
  /\ fnRet.calls < MaxCalls
  /\ \E input \in CallInputs :
       LET value == extractAgentMentionsAt(input, lastIndex) IN
       /\ fnArg' = input
       /\ fnRet' = [stage |-> "returned", value |-> value,
                    results |-> fnRet.results \cup {<<input, value>>},
                    calls |-> fnRet.calls + 1]
       /\ lastIndex' = LastIndexAfterMatchAll(input, lastIndex)
  /\ UNCHANGED turnVars

SpecCalls == InitCalls /\ [][CallExtractAgain]_vars

\* slugs as handleAgentMentions receives them: the mention grammar, lowercased
SlugAlphabet == {"a", "7", "-", "_"}

MaxSlugLen == 2

HeadingSlugs ==
  {slug \in UNION {[1..n -> SlugAlphabet] : n \in 1..MaxSlugLen} : IsAlnum(slug[1])}

NameAlphabet == {"O", "p", " ", "(", ")", "\n"}

\* agentRecord.name: any text; the empty name gives a heading without a name
HeadingNames == UNION {[1..n -> NameAlphabet] : n \in 0..MaxNameLen}

HeadingBodies == {NoResponseText, <<"(", "o", "k", ")">>}

InitHeading ==
  /\ TurnIdle
  /\ fnArg \in [slug : HeadingSlugs, agentName : HeadingNames, body : HeadingBodies]
  /\ fnRet = NotCalled
  /\ lastIndex = 0

\* the text handleAgentMentions builds for (slug, agentName) and a body
BuildAgentMessage ==
  /\ fnRet.stage = "idle"
  /\ fnRet' = [stage |-> "built",
               value |-> TextContent(ResponseHeader(fnArg.slug, fnArg.agentName), fnArg.body)]
  /\ UNCHANGED <<turnVars, fnArg, lastIndex>>

ParseAgentMessage ==
  /\ fnRet.stage = "built"
  /\ fnRet' = [stage |-> "parsed", value |-> parseAgentResponseText(fnRet.value)]
  /\ UNCHANGED <<turnVars, fnArg, lastIndex>>

NextHeading == BuildAgentMessage \/ ParseAgentMessage

SpecHeading == InitHeading /\ [][NextHeading]_vars

(***************************************************************************)
(* Vocabulary of the properties.                                           *)
(***************************************************************************)
IsStatus(c) == c.type = "data-agent-status"

IsStarted(c) == IsStatus(c) /\ c.status = "started"

IsTerminal(c) == IsStatus(c) /\ c.status \in {"finished", "error"}

IsMentionChunk(c) == c.type \in {"data-agent-status", "data-appendMessage"}

\* a chunk of the primary assistant's streamed answer
IsPrimaryChunk(c) == c.type \in {"text-delta", "data-usage"}

\* the positions in the stream of the 'started' chunk(s) of the i-th mention
StartedAt(i) == {k \in DOMAIN stream : IsStarted(stream[k]) /\ stream[k].mention = i}

\* the positions in the stream of the terminal chunk(s) of the i-th mention
TerminalAt(i) == {k \in DOMAIN stream : IsTerminal(stream[k]) /\ stream[k].mention = i}

\* the status chunks of the stream, in the order written
StatusChunks == SelectSeq(stream, IsStatus)

\* the text of the message generated for the i-th mention
MessageText(i) == agentMessages[i].parts[1].text

\* the part of a message text after the blank line that ends its heading
MessageBody(text) ==
  LET blank == CHOOSE p \in 1..Len(text) :
                 /\ OccursAt(text, <<"\n", "\n">>, p)
                 /\ \A q \in 1..(p - 1) : ~OccursAt(text, <<"\n", "\n">>, q)
  IN SubSeq(text, blank + 2, Len(text))

\* the terminal status chunk of the i-th mention
TerminalChunk(i) == stream[CHOOSE k \in TerminalAt(i) : TRUE]

\* the i-th mention's iteration has ended: its message is built and written
Emitted(i) == i \in DOMAIN agentMessages

\* the try block of the i-th mention's iteration raised
Threw(i) == i \in DOMAIN runs /\ (runs[i].lookup = "throw" \/ runs[i].generated = "throw")

AllMentionsTerminal == \A j \in DOMAIN normalizedAgentMentions : TerminalAt(j) # {}

PrimaryStarted == \E k \in DOMAIN modelCalls : modelCalls[k].fn = "streamText"

(***************************************************************************)
(* C1. The chunks of different mentions never interleave: the status       *)
(* chunks alternate 'started', terminal, 'started', terminal, ..., the     *)
(* k-th pair carrying the slug of the k-th mention of the input list, so   *)
(* the 'started' of mention i+1 comes after the terminal chunk of mention  *)
(* i and mentions start in input order; every chunk of a mention (status   *)
(* or appended message) lies before every chunk of a later mention.        *)
(***************************************************************************)
C1_MentionsSequential ==
  /\ Len(StatusChunks) <= 2 * Len(normalizedAgentMentions)
  /\ \A k \in DOMAIN StatusChunks :
       IF k % 2 = 1
       THEN /\ IsStarted(StatusChunks[k])
            /\ StatusChunks[k].slug = normalizedAgentMentions[(k + 1) \div 2].slug
       ELSE /\ IsTerminal(StatusChunks[k])
            /\ StatusChunks[k].slug = normalizedAgentMentions[k \div 2].slug
  /\ \A k1, k2 \in DOMAIN stream :
       (k1 < k2 /\ IsMentionChunk(stream[k1]) /\ IsMentionChunk(stream[k2]))
         => stream[k1].mention <= stream[k2].mention
  /\ \A i, j \in DOMAIN normalizedAgentMentions :
       i < j => \A k \in StartedAt(j) : \E t \in TerminalAt(i) : t < k

\* two mentions have run to their terminal chunks
C1_Witness ==
  /\ Len(normalizedAgentMentions) >= 2
  /\ TerminalAt(1) # {}
  /\ TerminalAt(2) # {}

(***************************************************************************)
(* C2. Every mention gets exactly one 'started' chunk, written before      *)
(* getAgentBySlug is answered, and then exactly one terminal chunk         *)
(* ('finished' or 'error'), whatever lookup, authorization and model       *)
(* invocation do: never two of either, no terminal chunk without a         *)
(* 'started' before it, and a started mention always reaches its terminal  *)
(* chunk.                                                                  *)
(***************************************************************************)
C2_Lifecycle ==
  /\ [](\A i \in 1..MaxMentions :
          /\ Cardinality(StartedAt(i)) <= 1
          /\ Cardinality(TerminalAt(i)) <= 1
          /\ \A t \in TerminalAt(i) : \E k \in StartedAt(i) : k < t
          /\ (i \in DOMAIN runs => StartedAt(i) # {})
          /\ (Emitted(i) <=> TerminalAt(i) # {}))
  /\ \A i \in 1..MaxMentions :
       (pc = "execute" /\ i \in DOMAIN normalizedAgentMentions) ~> (StartedAt(i) # {})
  /\ \A i \in 1..MaxMentions : (StartedAt(i) # {}) ~> (TerminalAt(i) # {})

\* one mention ended 'error' and another one 'finished'
C2_Witness ==
  /\ TerminalAt(1) # {} /\ TerminalChunk(1).status = "error"
  /\ TerminalAt(2) # {} /\ TerminalChunk(2).status = "finished"

C4_ErrorBody ==
  \A i \in DOMAIN runs :
    (Emitted(i) /\ runs[i].generated = "throw")
      => /\ MessageBody(MessageText(i)) = ErrorPrefix \o runs[i].slug \o <<".">>
         /\ TerminalAt(i) # {}
         /\ TerminalChunk(i).status = "error"

C4_Witness == \E i \in DOMAIN runs : Emitted(i) /\ runs[i].generated = "throw"

(***************************************************************************)
(* C5. When getAgentBySlug returns null for a mention, its terminal status *)
(* is 'finished', generateText is not called for it, and the body of its   *)
(* message contains the slug.                                              *)
(***************************************************************************)
C5_NotFound ==
  \A i \in DOMAIN runs :
    (runs[i].lookup = "returned" /\ ~runs[i].agentRecord.found)
      => /\ \A k \in DOMAIN modelCalls : modelCalls[k].mention # i
         /\ Emitted(i)
              => /\ TerminalAt(i) # {}
                 /\ TerminalChunk(i).status = "finished"
                 /\ Includes(MessageBody(MessageText(i)), runs[i].slug)

C5_Witness ==
  \E i \in DOMAIN runs :
    runs[i].lookup = "returned" /\ ~runs[i].agentRecord.found /\ Emitted(i)

(***************************************************************************)
(* C6. When a mention resolves to an agent that is not public and is owned *)
(* by another user, the body of its message says that the requester does   *)
(* not have access to @slug and its terminal status is 'finished'.         *)
(***************************************************************************)
C6_AccessDenied ==
  \A i \in DOMAIN runs :
    (/\ Emitted(i)
     /\ runs[i].agentRecord.found
     /\ ~runs[i].agentRecord.isPublic
     /\ runs[i].agentRecord.userId # userId)
      => /\ OccursAt(MessageBody(MessageText(i)), DeniedPrefix \o runs[i].slug, 1)
         /\ TerminalAt(i) # {}
         /\ TerminalChunk(i).status = "finished"

C6_Witness ==
  \E i \in DOMAIN runs :
    /\ Emitted(i)
    /\ runs[i].agentRecord.found
    /\ ~runs[i].agentRecord.isPublic
    /\ runs[i].agentRecord.userId # userId

(***************************************************************************)
(* C7. generateText is called for a mention only with an agent record that *)
(* exists and is public or owned by the requester; the record the lookup   *)
(* returned for that mention is that record.                               *)
(***************************************************************************)
C7_OnlyAccessibleAgentsRun ==
  \A k \in DOMAIN modelCalls :
    modelCalls[k].fn = "generateText"
      => LET record == runs[modelCalls[k].mention].agentRecord IN
         /\ record.found
         /\ (record.isPublic \/ record.userId = userId)
         /\ modelCalls[k].agentRecord = record

\* a public agent of another user has run, after a private one of another user
\* was refused
C7_Witness ==
  /\ \E k \in DOMAIN modelCalls :
       /\ modelCalls[k].fn = "generateText"
       /\ modelCalls[k].agentRecord.userId # userId
  /\ \E i \in DOMAIN runs :
       /\ runs[i].agentRecord.found
       /\ ~runs[i].agentRecord.isPublic
       /\ runs[i].agentRecord.userId # userId
       /\ Emitted(i)

(***************************************************************************)
(* C10. In the stream of a turn every chunk of a mention (status chunk or  *)
(* appended message) is written before the first chunk of the primary      *)
(* assistant's answer.                                                     *)
(***************************************************************************)
C10_MentionsBeforePrimary ==
  \A k1, k2 \in DOMAIN stream :
    (IsPrimaryChunk(stream[k1]) /\ IsMentionChunk(stream[k2])) => k2 < k1

C10_Witness ==
  /\ \E k \in DOMAIN stream : IsPrimaryChunk(stream[k])
  /\ \E k \in DOMAIN stream : stream[k].type = "data-appendMessage"

(***************************************************************************)
(* C8. extractAgentMentions returns one entry per mention token of the     *)
(* input ("@", an alphanumeric, then up to 63 word or hyphen characters,   *)
(* taken as long as possible), in left-to-right order; entry i has the     *)
(* lowercased token as slug and as prompt the text between the end of      *)
(* token i and the start of token i+1 (the end of the input for the last), *)
(* without its leading run of separators and trimmed.  The scenario input  *)
(* yields (sales-bot, "find Q3 numbers and"), (ops, "about deploys").      *)
(***************************************************************************)
\* where the mention tokens of s start: a token holds no "@" beyond its first
\* character, so every "@" followed by an alphanumeric starts one
TokenStarts(s) == {p \in 1..(Len(s) - 1) : s[p] = "@" /\ IsAlnum(s[p + 1])}

\* the last position of the token that starts at p
TokenEnd(s, p) ==
  CHOOSE e \in (p + 1)..Len(s) :
    /\ e - p <= MaxSlugTail + 1
    /\ \A k \in (p + 1)..e : IsSlugTail(s[k])
    /\ (e = Len(s) \/ e - p = MaxSlugTail + 1 \/ ~IsSlugTail(s[e + 1]))

\* the position at which the text after the token at p ends
FragmentEnd(s, p) ==
  IF \E q \in TokenStarts(s) : q > p
  THEN (CHOOSE q \in TokenStarts(s) : q > p /\ \A r \in TokenStarts(s) : r > p => q <= r) - 1
  ELSE Len(s)

ExpectedMentions(s) ==
  [i \in 1..Cardinality(TokenStarts(s)) |->
     LET p == CHOOSE q \in TokenStarts(s) : Cardinality({r \in TokenStarts(s) : r <= q}) = i
     IN [slug |-> toLowerCase(SubSeq(s, p + 1, TokenEnd(s, p))),
         prompt |-> trim(StripLeadingSeparators(SubSeq(s, TokenEnd(s, p) + 1, FragmentEnd(s, p))))]]

C8_ExtractMentions ==
  fnRet.stage = "returned"
    => /\ fnRet.value = ExpectedMentions(fnArg)
       /\ fnArg = ScenarioInput
            => fnRet.value = <<[slug |-> ScenarioSlug1, prompt |-> ScenarioPrompt1],
                               [slug |-> ScenarioSlug2, prompt |-> ScenarioPrompt2]>>

\* the scenario input has been split into its two mentions
C8_Witness ==
  /\ fnRet.stage = "returned"
  /\ fnArg = ScenarioInput
  /\ Len(fnRet.value) = 2

(***************************************************************************)
(* C9. parseAgentResponseText applied to the text handleAgentMentions      *)
(* builds for (slug, agentName) returns a result whose slug is the         *)
(* mention's slug and whose agentName is the agent's name exactly          *)
(* (undefined when the heading carries no name), for every slug of the     *)
(* mention grammar and every agent name.                                   *)
(***************************************************************************)
C9_HeadingRoundTrip ==
  fnRet.stage = "parsed"
    => /\ fnRet.value.matched
       /\ fnRet.value.slug = toLowerCase(fnArg.slug)
       /\ fnRet.value.agentName
            = (IF fnArg.agentName = <<>> THEN Undefined ELSE fnArg.agentName)

\* the kinds of the saveMessages calls of the turn, in call order
SavedKinds == [k \in DOMAIN saved |-> saved[k].kind]

(***************************************************************************)
(* C11, as stated. saveMessages is called exactly twice in a turn: with the *)
(* user's message and with the batch of the mentions' messages; a turn      *)
(* that has ended made these two calls and no other.                        *)
(***************************************************************************)
C11_ExactlyTwoWrites ==
  /\ Len(saved) <= 2
  /\ pc = "done" => SavedKinds = <<"user", "mentions">>

(***************************************************************************)
(* C11, amended. saveMessages is called with the user's message before any *)
(* mention run starts; when the request has mentions, once with the one     *)
(* batch of all the mentions' messages, after every mention has reached its *)
(* terminal chunk and before streamText is called; and once by the stream's *)
(* onFinish with the response of the primary turn, after that turn has      *)
(* finished: three calls in a turn with mentions that ends, two in a turn   *)
(* without, and no other call.                                              *)
(***************************************************************************)
C11_MessageWrites ==
  /\ SavedKinds \in {<<>>, <<"user">>, <<"user", "mentions">>, <<"user", "response">>,
                     <<"user", "mentions", "response">>}
  /\ (runs # <<>> \/ stream # <<>> \/ modelCalls # <<>>) => Len(saved) >= 1
  /\ \A k \in DOMAIN saved :
       /\ saved[k].kind = "mentions"
            => /\ Len(normalizedAgentMentions) > 0
               /\ AllMentionsTerminal
               /\ Len(saved[k].ids) = Len(normalizedAgentMentions)
       /\ saved[k].kind = "response" => primary.state = "finished"
  /\ (PrimaryStarted /\ Len(normalizedAgentMentions) > 0)
       => \E k \in DOMAIN saved : saved[k].kind = "mentions" /\ saved[k].ok
  /\ pc = "done"
       => SavedKinds = (IF Len(normalizedAgentMentions) > 0
                        THEN <<"user", "mentions", "response">>
                        ELSE <<"user", "response">>)

\* a turn with two mentions has ended with its three calls
C11_Witness ==
  /\ pc = "done"
  /\ Len(normalizedAgentMentions) = 2
  /\ Len(saved) = 3

(***************************************************************************)
(* C12. For a user's text without "@", extractAgentMentions returns the     *)
(* empty sequence and handleAgentMentions is not called in the turn: the    *)
(* turn never enters the mention loop, asks for no agent, writes no mention *)
(* chunk, calls generateText for no mention and saves no batch.             *)
(***************************************************************************)
C12_NoMentionNoOrchestrator ==
  (pc # "input" /\ ~Includes(fnArg, <<"@">>))
    => /\ fnRet.value = <<>>
       /\ normalizedAgentMentions = <<>>
       /\ pc \notin {"mentionStart", "lookup", "files", "generate", "emit", "persist"}
       /\ runs = <<>>
       /\ agentMessages = <<>>
       /\ \A k \in DOMAIN stream : ~IsMentionChunk(stream[k])
       /\ \A k \in DOMAIN modelCalls : modelCalls[k].fn # "generateText"
       /\ \A k \in DOMAIN saved : saved[k].kind # "mentions"

\* a turn of a text without "@" has ended with the primary answer
C12_Witness ==
  /\ pc = "done"
  /\ Len(fnArg) > 0
  /\ ~Includes(fnArg, <<"@">>)
  /\ PrimaryStarted

(***************************************************************************)
(* C13. Calls of extractAgentMentions, in any number and order and on any   *)
(* texts, return the same mentions for the same text: mentionPattern, the   *)
(* global regular expression of the module, has lastIndex 0 at every call,  *)
(* so no call sees a state left by an earlier one, and each result is the   *)
(* one of a first call on that text.                                        *)
(***************************************************************************)
C13_ExtractDeterministic ==
  /\ lastIndex = 0
  /\ \A r1, r2 \in fnRet.results : r1[1] = r2[1] => r1[2] = r2[2]
  /\ fnRet.stage = "returned" => fnRet.value = ExpectedMentions(fnArg)

\* the same text was given to the first and the third call, another one between
C13_Witness ==
  /\ fnRet.calls = 3
  /\ Cardinality(fnRet.results) = 2
  /\ \E r \in fnRet.results : r[1] = fnArg /\ Len(r[2]) = 2

(***************************************************************************)
(* C14. A request whose body the schema refuses (it is not a well-formed    *)
(* body, or one of its agentMentions has a slug outside the grammar) is     *)
(* answered bad_request and nothing else happens: POST goes from its start  *)
(* to that answer only, no chunk is written, no agent is looked up, no      *)
(* model is called, and neither a message nor a chat is saved.              *)
(***************************************************************************)
SchemaRefuses ==
  \/ ~requestBody.wellFormed
  \/ /\ requestBody.given
     /\ \E k \in DOMAIN requestBody.agentMentions :
          ~ValidMention(requestBody.agentMentions[k])

C14_BadRequest ==
  /\ [](SchemaRefuses
         => /\ pc \in {"POST", "bad_request"}
            /\ stream = <<>>
            /\ runs = <<>>
            /\ modelCalls = <<>>
            /\ saved = <<>>
            /\ normalizedAgentMentions = <<>>)
  /\ [][SchemaRefuses => (chat' = chat /\ saved' = saved)]_vars

\* a body with a refused slug among two mentions has been answered
C14_Witness ==
  /\ pc = "bad_request"
  /\ requestBody.wellFormed
  /\ Len(requestBody.agentMentions) = 2
  /\ chat = ""

(***************************************************************************)
(* C15. The message and the chunks of a mention whose run threw do not      *)
(* depend on the exception: two runs of a turn for the same slug that threw *)
(* at the same call, with the same agent resolved, have the same message    *)
(* text (in agentMessages, in dbMessages and in the data-appendMessage      *)
(* chunk) and terminal chunks with the same slug, status and agentName,     *)
(* whatever the two exceptions were; only the message ids differ.           *)
(***************************************************************************)
SameFailure(i, j) ==
  /\ Threw(i) /\ Threw(j)
  /\ Emitted(i) /\ Emitted(j)
  /\ runs[i].slug = runs[j].slug
  /\ runs[i].lookup = runs[j].lookup
  /\ runs[i].agentRecord = runs[j].agentRecord
  /\ runs[i].generated = runs[j].generated

AppendedMessage(i) ==
  stream[CHOOSE k \in DOMAIN stream :
           stream[k].type = "data-appendMessage" /\ stream[k].mention = i].message

C15_ErrorTextIndependent ==
  \A i, j \in DOMAIN runs :
    SameFailure(i, j)
      => /\ MessageText(i) = MessageText(j)
         /\ dbMessages[i].parts = dbMessages[j].parts
         /\ AppendedMessage(i).parts = AppendedMessage(j).parts
         /\ TerminalChunk(i).slug = TerminalChunk(j).slug
         /\ TerminalChunk(i).status = TerminalChunk(j).status
         /\ TerminalChunk(i).agentName = TerminalChunk(j).agentName

\* generateText threw two different exceptions for two mentions of one agent
C15_Witness ==
  /\ Len(runs) = 2
  /\ SameFailure(1, 2)
  /\ runs[1].generated = "throw"
  /\ runs[1].error # runs[2].error

(***************************************************************************)
(* C16, as stated. The message generated for an earlier mention is in the   *)
(* input of the model call of every later mention of the turn, and in the   *)
(* input of the primary turn's model call.                                  *)
(***************************************************************************)
C16_EarlierMessagesInContext ==
  \A k \in DOMAIN modelCalls :
    LET call == modelCalls[k]
        earlier == IF call.fn = "generateText" THEN 1..(call.mention - 1)
                   ELSE DOMAIN agentMessages
    IN \A i \in earlier :
         \E m \in DOMAIN call.messages : call.messages[m] = agentMessages[i].id

(***************************************************************************)
(* C16, amended. The messages generated for the mentions of a turn are, in  *)
(* mention order, part of the input of the primary turn's model call; the   *)
(* model call of a mention is given none of them: its input is built from   *)
(* the user's message, the mention's own prompt and its slug.               *)
(***************************************************************************)
C16_MentionRunsIsolated ==
  \A k \in DOMAIN modelCalls :
    IF modelCalls[k].fn = "generateText"
    THEN modelCalls[k].messages = <<>>
    ELSE /\ Len(agentMessages) = Len(normalizedAgentMentions)
         /\ modelCalls[k].messages = [i \in DOMAIN agentMessages |-> agentMessages[i].id]

\* the second mention's model was called after the first mention's message was
\* generated, and then the primary turn's
C16_Witness ==
  /\ Len(agentMessages) = 2
  /\ \E k \in DOMAIN modelCalls :
       modelCalls[k].fn = "generateText" /\ modelCalls[k].mention = 2
  /\ \E k \in DOMAIN modelCalls :
       modelCalls[k].fn = "streamText" /\ Len(modelCalls[k].messages) = 2

(***************************************************************************)
(* C17. A persistence write that fails after content has been generated in  *)
(* the turn (the batched saveMessages of the mentions' messages, the        *)
(* saveMessages of the stream's onFinish, updateChatLastContextById) is     *)
(* swallowed: no error chunk reaches the client and execute is not left     *)
(* before streamText is called.                                             *)
(***************************************************************************)
WriteFailedAfterGeneration ==
  \/ \E k \in DOMAIN saved : saved[k].kind \in {"mentions", "response"} /\ ~saved[k].ok
  \/ lastContext = "failed"

C17_PersistenceFailureSwallowed ==
  WriteFailedAfterGeneration
    => /\ \A k \in DOMAIN stream : stream[k].type # "error"
       /\ pc # "failed"

(***************************************************************************)
(* C18, as stated. A failure of any external call made for a mention (the   *)
(* agent lookup, the knowledge-file listing, the model invocation) ends the *)
(* mention in the ERROR state: status 'error' and the fixed error body.     *)
(***************************************************************************)
C18_AnyFailureIsError ==
  \A i \in DOMAIN runs :
    (/\ Emitted(i)
     /\ (runs[i].lookup = "throw" \/ runs[i].files = "failed" \/ runs[i].generated = "throw"))
      => /\ TerminalChunk(i).status = "error"
         /\ MessageBody(MessageText(i)) = ErrorPrefix \o runs[i].slug \o <<".">>

(***************************************************************************)
(* C18, amended. A failure of the agent lookup or of the model invocation   *)
(* ends the mention in the ERROR state (status 'error', the fixed error     *)
(* body).  A failure of the knowledge-file listing is caught too, but the   *)
(* run goes on: generateText is still called for the mention, and the       *)
(* mention ends 'finished' when that call returns.  No failure cancels a    *)
(* sibling: once the loop is left every mention has its terminal chunk.     *)
(***************************************************************************)
C18_FailuresCaughtPerMention ==
  /\ \A i \in DOMAIN runs :
       Emitted(i)
         => /\ (runs[i].lookup = "throw" \/ runs[i].generated = "throw")
                 => /\ TerminalChunk(i).status = "error"
                    /\ MessageBody(MessageText(i)) = ErrorPrefix \o runs[i].slug \o <<".">>
            /\ runs[i].files = "failed"
                 => /\ \E k \in DOMAIN modelCalls : modelCalls[k].mention = i
                    /\ runs[i].generated = "ok" => TerminalChunk(i).status = "finished"
  /\ pc \in {"persist", "primary", "executed", "done", "failed"} => AllMentionsTerminal

\* the listing failed for the first mention, which ended 'finished'; the lookup
\* of the second one threw
C18_Witness ==
  /\ Len(runs) = 2
  /\ Emitted(1) /\ Emitted(2)
  /\ runs[1].files = "failed"
  /\ TerminalChunk(1).status = "finished"
  /\ runs[2].lookup = "throw"

(***************************************************************************)
(* C19. For every mention the message is built with an id no other message *)
(* of the turn has, pushed to agentMessages, written as a                   *)
(* data-appendMessage chunk, and only then is the terminal status chunk     *)
(* written: the chunk right before a terminal status chunk is the           *)
(* data-appendMessage chunk of the same mention, it carries the message     *)
(* that agentMessages holds for the mention, and the status chunk names     *)
(* that message's id.                                                       *)
(***************************************************************************)
C19_MessageBeforeTerminal ==
  /\ \A t \in DOMAIN stream :
       IsTerminal(stream[t])
         => /\ t > 1
            /\ stream[t - 1].type = "data-appendMessage"
            /\ stream[t - 1].mention = stream[t].mention
            /\ stream[t - 1].message.id = stream[t].messageId
  /\ \A k \in DOMAIN stream :
       stream[k].type = "data-appendMessage"
         => /\ stream[k].mention \in DOMAIN agentMessages
            /\ agentMessages[stream[k].mention] = stream[k].message
            /\ \E t \in TerminalAt(stream[k].mention) : t = k + 1
  /\ \A i, j \in DOMAIN agentMessages :
       i # j => agentMessages[i].id # agentMessages[j].id

\* two mentions have ended, one 'error' and one 'finished'
C19_Witness ==
  /\ Len(agentMessages) = 2
  /\ Cardinality({k \in DOMAIN stream : stream[k].type = "data-appendMessage"}) = 2
  /\ \E i \in 1..2 : TerminalAt(i) # {} /\ TerminalChunk(i).status = "error"

(***************************************************************************)
(* C20. The messages of the mentions are saved by one saveMessages call,    *)
(* made after the last mention has its terminal chunk: from the first       *)
(* 'started' chunk until every mention has its terminal chunk no            *)
(* saveMessages call is made (the user's message was saved before), and     *)
(* the batch holds exactly the generated messages, in mention order.        *)
(***************************************************************************)
C20_OneBatchAfterLastMention ==
  /\ [](/\ Cardinality({k \in DOMAIN saved : saved[k].kind = "mentions"}) <= 1
        /\ \A k \in DOMAIN saved :
             saved[k].kind = "mentions"
               => /\ AllMentionsTerminal
                  /\ Len(saved[k].ids) = Len(normalizedAgentMentions)
                  /\ saved[k].ids = [i \in DOMAIN agentMessages |-> agentMessages[i].id]
                  /\ \A i \in DOMAIN saved[k].ids :
                       saved[k].ids[i] = TerminalChunk(i).messageId
        /\ (StartedAt(1) # {} /\ ~AllMentionsTerminal) => SavedKinds = <<"user">>)
  /\ [][(StartedAt(1) # {} /\ ~AllMentionsTerminal') => saved' = saved]_vars

\* the batch of a turn with two mentions has been saved
C20_Witness ==
  \E k \in DOMAIN saved :
    saved[k].kind = "mentions" /\ saved[k].ok /\ Len(saved[k].ids) = 2

(***************************************************************************)
(* C21.  stripAgentDirectiveText(text, extractAgentMentions(text)).        *)
(***************************************************************************)
\* the matches of mentionPattern in the text given to the call
StripMatches == MatchAllFrom(fnArg, 1)

\* 1-based position of the first character after the token of match k
AfterToken(k) == StripMatches[k].index + Len(StripMatches[k].m0) + 1

\* the token of match k, the separator run after it and the mention's prompt,
\* as they stand in the text
DirectiveText(k) ==
  LET mention == MentionOfMatch(fnArg, StripMatches, k)
      run == SeparatorRunFrom(fnArg, AfterToken(k))
  IN SubSeq(fnArg, StripMatches[k].index + 1,
            AfterToken(k) - 1 + run + Len(mention.prompt))

\* match k is a mention with a prompt, not at the start of the text, separated
\* from its prompt by whitespace, and no other mention of the text has its slug
SpacedDirective(k) ==
  LET mention == MentionOfMatch(fnArg, StripMatches, k)
  IN /\ StripMatches[k].index > 0
     /\ mention.prompt # <<>>
     /\ AfterToken(k) <= Len(fnArg)
     /\ IsSpace(fnArg[AfterToken(k)])
     /\ \A j \in DOMAIN StripMatches :
          j # k => MentionOfMatch(fnArg, StripMatches, j).slug # mention.slug

\* C21: the text returned by stripAgentDirectiveText for a text and the mentions
\* extracted from it no longer contains the directive (token, separator run,
\* prompt) of any mention that does not start the text, has a prompt and was
\* separated from it by whitespace: the directive was replaced by the bare token.
C21_DirectiveRemoved ==
  fnRet.stage = "returned" =>
    \A k \in DOMAIN StripMatches :
      SpacedDirective(k) => ~Includes(fnRet.value, DirectiveText(k))

(***************************************************************************)
(* C22, C23, C28.  The tool registry and the active tools of a model run.  *)
(***************************************************************************)
RegistryBuilt == fnRet.stage = "registry"

MentionToolsChosen == RegistryBuilt /\ fnRet.value.mention # Undefined

PrimaryToolsChosen == RegistryBuilt /\ fnRet.value.primary # Undefined

\* the pinned tools of the registry, in the order of its keys
PinnedTools == FilterActive(fnRet.value.registry.tools, {}, fnRet.value.registry.nonConfigurableToolIds)

\* the caller's list names no tool of the registry
SelectsNoRegisteredTool ==
  /\ fnArg.requestedActiveTools # Undefined
  /\ Elements(fnArg.requestedActiveTools) \cap Elements(fnRet.value.registry.tools) = {}

\* C22: the active tools handed to a model run contain every pinned tool of the
\* registry, whatever list of active tools the caller sent (absent, empty, or
\* naming none of them), in the mention run and in the primary turn.
C22_PinnedAlwaysActive ==
  /\ MentionToolsChosen =>
       fnRet.value.registry.nonConfigurableToolIds \subseteq Elements(fnRet.value.mention)
  /\ PrimaryToolsChosen =>
       fnRet.value.registry.nonConfigurableToolIds \subseteq Elements(fnRet.value.primary)

\* both runs chose their tools from a registry with two pinned tools, for a
\* caller whose list names none of them
C22_Witness ==
  /\ MentionToolsChosen
  /\ PrimaryToolsChosen
  /\ fnRet.value.registry.nonConfigurableToolIds = {"file_search", "get_file_contents"}
  /\ fnArg.requestedActiveTools = <<"requestSuggestions", "bogus">>
  /\ fnRet.value.primary = <<"requestSuggestions", "file_search", "get_file_contents">>

\* the parts of the registry's contract that do not concern get_file_contents
RegistryOtherTools ==
  LET registry == fnRet.value.registry
      keys == Elements(registry.tools)
  IN /\ Elements(BaseToolIds) \subseteq keys
     /\ "file_search" \in keys
          <=> (fnArg.vectorStoreId # "" /\ fnArg.providerNamespace = "openai")
     /\ "getTranscriptDetails" \in keys <=> fnArg.includeTranscriptDetails
     /\ registry.nonConfigurableToolIds \subseteq keys

\* C23 as stated: every registry has the base tools, file_search exactly for a
\* knowledge store under the openai namespace, get_file_contents exactly when a
\* knowledge store is present (and then pinned), getTranscriptDetails exactly
\* for the privilege flag, and every pinned name is a key of the tool map.
C23_FileContentsOnlyWithStore ==
  RegistryBuilt =>
    /\ RegistryOtherTools
    /\ "get_file_contents" \in Elements(fnRet.value.registry.tools)
         <=> fnArg.vectorStoreId # ""
    /\ fnArg.vectorStoreId # ""
         => "get_file_contents" \in fnRet.value.registry.nonConfigurableToolIds

\* C23, amended: get_file_contents is a key of every registry; it is pinned
\* exactly when a knowledge store is present, and bound to that store (to the
\* empty id when there is none); file_search is pinned whenever it is registered;
\* the rest is as stated.
C23_RegistryContents ==
  RegistryBuilt =>
    LET registry == fnRet.value.registry
    IN /\ RegistryOtherTools
       /\ "get_file_contents" \in Elements(registry.tools)
       /\ "get_file_contents" \in registry.nonConfigurableToolIds
            <=> fnArg.vectorStoreId # ""
       /\ "file_search" \in registry.nonConfigurableToolIds
            <=> "file_search" \in Elements(registry.tools)
       /\ registry.nonConfigurableToolIds \subseteq {"get_file_contents", "file_search"}
       /\ registry.fileContentsStore = fnArg.vectorStoreId

\* a registry built without a knowledge store: get_file_contents is a key and
\* nothing is pinned
C23_Witness ==
  /\ RegistryBuilt
  /\ fnArg.vectorStoreId = ""
  /\ "get_file_contents" \in Elements(fnRet.value.registry.tools)
  /\ fnRet.value.registry.nonConfigurableToolIds = {}

\* C28: the active tools of a mention run are never empty; the run gets every
\* registered tool when the caller's list is absent or empty, and when it names
\* no registered tool while nothing is pinned.  The primary turn given an empty
\* list gets the pinned tools only.
C28_MentionToolsNeverEmpty ==
  /\ MentionToolsChosen =>
       /\ fnRet.value.mention # <<>>
       /\ (\/ fnArg.requestedActiveTools = Undefined
           \/ fnArg.requestedActiveTools = <<>>
           \/ (SelectsNoRegisteredTool /\ fnRet.value.registry.nonConfigurableToolIds = {}))
            => fnRet.value.mention = fnRet.value.registry.tools
  /\ (PrimaryToolsChosen /\ fnArg.requestedActiveTools = <<>>)
       => fnRet.value.primary = PinnedTools

\* one request with an empty list: the mention run has every tool, the primary
\* turn has none
C28_Witness ==
  /\ MentionToolsChosen
  /\ PrimaryToolsChosen
  /\ fnArg.requestedActiveTools = <<>>
  /\ fnRet.value.mention = fnRet.value.registry.tools
  /\ fnRet.value.primary = <<>>
  /\ fnRet.value.mention # fnRet.value.primary

(***************************************************************************)
(* C24.  The pending placeholders of the client.                           *)
(***************************************************************************)
\* the status parts of the data stream that carry slug s (in any case)
StatusPartsOf(s) ==
  {k \in DOMAIN fnArg.dataStream :
     /\ fnArg.dataStream[k].type = "data-agent-status"
     /\ fnArg.dataStream[k].slug # <<>>
     /\ toLowerCase(fnArg.dataStream[k].slug) = s}

\* the most recent status part for s says 'started'
LastStatusStarted(s) ==
  /\ StatusPartsOf(s) # {}
  /\ LET last == CHOOSE k \in StatusPartsOf(s) : \A j \in StatusPartsOf(s) : j <= k
     IN fnArg.dataStream[last].status = "started"

\* an assistant message of the chat starts with a response heading for s
HeadingInHistory(s) ==
  \E k \in DOMAIN fnArg.messages :
    /\ fnArg.messages[k].role = "assistant"
    /\ parseAgentResponseText(FirstTextValue(fnArg.messages[k])).matched
    /\ parseAgentResponseText(FirstTextValue(fnArg.messages[k])).slug = s

\* a placeholder is rendered for s
PendingShown(s) == \E k \in DOMAIN fnRet.value : toLowerCase(fnRet.value[k].slug) = s

\* the first half of C24: which placeholders are rendered
PendingExactly ==
  \A s \in {toLowerCase(slug) : slug \in ClientSlugs} :
    PendingShown(s) <=> (LastStatusStarted(s) /\ ~HeadingInHistory(s))

\* the step adds a 'started' part for s to the data stream
StartedArrives(s) ==
  /\ Len(fnArg'.dataStream) = Len(fnArg.dataStream) + 1
  /\ LET part == fnArg'.dataStream[Len(fnArg'.dataStream)]
     IN /\ part.type = "data-agent-status"
        /\ part.status = "started"
        /\ part.slug # <<>>
        /\ toLowerCase(part.slug) = s

\* C24: a placeholder is rendered for slug s exactly when the most recent status
\* part for s is 'started' and no assistant message of the history starts with a
\* response heading for s; and so a mention in flight has a placeholder: when the
\* 'started' part of a mention arrives (no terminal part, no message of it yet),
\* its placeholder is rendered.
C24_InFlightShownPending ==
  /\ []PendingExactly
  /\ [][\A s \in {toLowerCase(slug) : slug \in ClientSlugs} :
          StartedArrives(s) => PendingShown(s)']_vars

(***************************************************************************)
(* C25.  The system prompt of a mention run.                               *)
(***************************************************************************)
\* the text t ends the text s
EndsWith(s, t) == Len(t) <= Len(s) /\ SubSeq(s, Len(s) - Len(t) + 1, Len(s)) = t

\* the 1-based positions at which t occurs in s
Occurrences(s, t) == {p \in 1..Len(s) : OccursAt(s, t, p)}

\* the block of the prompt that names the agent, up to the end of the prompt
AgentBlockOf(prompt) ==
  LET starts == Occurrences(prompt, <<"You are now acting as ">>)
  IN IF starts = {} THEN <<>>
     ELSE SubSeq(prompt, CHOOSE p \in starts : \A q \in starts : q <= p, Len(prompt))

\* C25: the system prompt of a mention run is made, in this order, of the general
\* instruction block, the request-context block and the agent block; the agent
\* block is last, names the agent, and contains the agent's stored prompt and the
\* id and name of every knowledge file available to the run.
C25_PromptHasKnowledgeFiles ==
  fnRet.stage = "returned" =>
    LET prompt == fnRet.value
        requestPrompt == getRequestPromptFromHints(fnArg.requestHints)
        agentBlock == AgentBlockOf(prompt)
    IN /\ OccursAt(prompt, regularPrompt, 1)
       /\ \E p \in Occurrences(prompt, requestPrompt) : p > Len(regularPrompt)
       /\ agentBlock # <<>>
       /\ \A p \in Occurrences(prompt, requestPrompt) :
            p + Len(requestPrompt) <= Len(prompt) - Len(agentBlock) + 1
       /\ Includes(agentBlock, <<"\"">> \o fnArg.agentRecord.name \o <<"\"">>)
       /\ fnArg.agentRecord.agentPrompt # Null
            => EndsWith(agentBlock, fnArg.agentRecord.agentPrompt)
       /\ \A k \in DOMAIN fnArg.knowledgeFiles :
            /\ Includes(agentBlock, fnArg.knowledgeFiles[k].id)
            /\ Includes(agentBlock, fnArg.knowledgeFiles[k].name)

\* C25 without the knowledge files: the order of the blocks and the content of
\* the agent block that the prompt does have
PromptOrderAndAgent ==
  fnRet.stage = "returned" =>
    LET prompt == fnRet.value
        requestPrompt == getRequestPromptFromHints(fnArg.requestHints)
        agentBlock == AgentBlockOf(prompt)
    IN /\ OccursAt(prompt, regularPrompt, 1)
       /\ \E p \in Occurrences(prompt, requestPrompt) : p > Len(regularPrompt)
       /\ agentBlock # <<>>
       /\ Includes(agentBlock, <<"\"">> \o fnArg.agentRecord.name \o <<"\"">>)
       /\ fnArg.agentRecord.agentPrompt # Null
            => EndsWith(agentBlock, fnArg.agentRecord.agentPrompt)

(***************************************************************************)
(* C26.  The messages handleAgentMentions returns, and their ids.          *)
(***************************************************************************)
\* handleAgentMentions has returned to execute (or was not called, for a turn
\* without mentions)
MentionsReturned == pc \in {"primary", "executed", "done"}

\* the chunks of the stream that carry the message of mention i
AppendedAt(i) ==
  {k \in DOMAIN stream : stream[k].type = "data-appendMessage" /\ stream[k].mention = i}

\* C26: handleAgentMentions called with n mentions returns n messages, the i-th
\* with the heading of the i-th mention's slug, all with different ids; and for
\* every mention the messageId of its terminal status chunk is the id of the
\* message in its data-appendMessage chunk, of the returned message and of the
\* record handed to saveMessages, also when a slug is mentioned more than once.
C26_OneMessagePerMention ==
  /\ MentionsReturned =>
       /\ Len(agentMessages) = Len(normalizedAgentMentions)
       /\ \A i \in DOMAIN agentMessages :
            /\ parseAgentResponseText(MessageText(i)).matched
            /\ parseAgentResponseText(MessageText(i)).slug = normalizedAgentMentions[i].slug
       /\ Len(agentMessages) > 0 =>
            \E k \in DOMAIN saved :
              /\ saved[k].kind = "mentions"
              /\ saved[k].ids = [i \in DOMAIN agentMessages |-> agentMessages[i].id]
  /\ \A i, j \in DOMAIN agentMessages : i # j => agentMessages[i].id # agentMessages[j].id
  /\ Len(dbMessages) = Len(agentMessages)
  /\ \A i \in DOMAIN agentMessages :
       /\ dbMessages[i].id = agentMessages[i].id
       /\ Cardinality(AppendedAt(i)) = 1
       /\ \A k \in AppendedAt(i) : stream[k].message = agentMessages[i]
       /\ \A k \in TerminalAt(i) : stream[k].messageId = agentMessages[i].id

\* handleAgentMentions has returned two messages for two mentions of one slug
C26_Witness ==
  /\ MentionsReturned
  /\ Len(agentMessages) = 2
  /\ normalizedAgentMentions[1].slug = normalizedAgentMentions[2].slug
  /\ agentMessages[1].id # agentMessages[2].id
  /\ TerminalAt(2) # {}

(***************************************************************************)
(* C27.  The knowledge store of a mentioned agent.                         *)
(***************************************************************************)
\* the registries createToolRegistry can build for a mention run bound to the
\* given store, over the provider namespaces and both roles
RegistriesFor(vectorStoreId) ==
  {createToolRegistry(vectorStoreId, providerNamespace, includeTranscriptDetails) :
     providerNamespace \in {"openai", "xai"}, includeTranscriptDetails \in BOOLEAN}

\* the registry exposes no knowledge store
NoStoreExposed(registry) ==
  /\ registry.nonConfigurableToolIds = {}
  /\ "file_search" \notin Elements(registry.tools)
  /\ registry.vectorStoreIds = {}
  /\ registry.fileContentsStore = ""

\* C27: in a mention run the agent's knowledge store is used (its files listed,
\* file_search and get_file_contents bound to it and pinned) only when the
\* requester owns the agent record; the run of a public agent of another user
\* never lists the files of the owner's store nor binds a tool to it.
C27_StoreOnlyForOwner ==
  /\ \A i \in DOMAIN runs :
       runs[i].files # "none" => runs[i].agentRecord.userId = userId
  /\ (pc \in {"files", "generate"} /\ local.agentVectorStoreId # "")
       => local.agentRecord.userId = userId
  /\ \A k \in DOMAIN modelCalls :
       modelCalls[k].fn = "generateText" =>
         /\ modelCalls[k].vectorStoreId # ""
              => /\ modelCalls[k].agentRecord.userId = userId
                 /\ modelCalls[k].vectorStoreId = modelCalls[k].agentRecord.vectorStoreId
         /\ modelCalls[k].agentRecord.userId # userId
              => /\ runs[modelCalls[k].mention].files = "none"
                 /\ \A registry \in RegistriesFor(modelCalls[k].vectorStoreId) :
                      NoStoreExposed(registry)

\* a public agent of another user that has a knowledge store has run without
\* it, and the requester's own agent has run with its store
C27_Witness ==
  /\ \E k \in DOMAIN modelCalls :
       /\ modelCalls[k].fn = "generateText"
       /\ modelCalls[k].agentRecord.userId # userId
       /\ modelCalls[k].agentRecord.isPublic
       /\ modelCalls[k].agentRecord.vectorStoreId # ""
       /\ modelCalls[k].vectorStoreId = ""
  /\ \E k \in DOMAIN modelCalls :
       /\ modelCalls[k].fn = "generateText"
       /\ modelCalls[k].agentRecord.userId = userId
       /\ modelCalls[k].vectorStoreId # ""
       /\ runs[modelCalls[k].mention].files = "loaded"

(***************************************************************************)
(* C29.  A POST to a chat of another user.                                 *)
(***************************************************************************)
\* the chat of the request exists and belongs to another user
ForeignChat == chat # "" /\ chat # userId

\* nothing of the turn has happened: no message saved, no stream id drawn, no
\* chunk written, no mention started, no model called
NoTurnEffect ==
  /\ saved = <<>>
  /\ uuidCounter = 0
  /\ stream = <<>>
  /\ runs = <<>>
  /\ modelCalls = <<>>
  /\ primary = IdlePrimary
  /\ normalizedAgentMentions = <<>>

\* C29: a POST for an existing chat whose owner is not the caller is answered
\* forbidden:chat, and only such a POST is; no effect of the turn comes before or
\* after the answer: the user's message is not saved, no stream id is created, no
\* mention is started and no model is called, and the chat keeps its owner.
C29_ForbiddenBeforeEffects ==
  /\ [](ForeignChat => (NoTurnEffect /\ pc \in {"POST", "checkChat", "forbidden", "bad_request"}))
  /\ [](pc = "forbidden" => ForeignChat)
  /\ [][(pc = "checkChat" /\ ForeignChat) => (pc' = "forbidden" /\ chat' = chat)]_vars

\* a request that carries mentions was refused for a chat of another user
C29_Witness ==
  /\ pc = "forbidden"
  /\ ForeignChat
  /\ Len(requestBody.agentMentions) > 0
  /\ NoTurnEffect

(***************************************************************************)
(* C30.  DELETE and the ownership test of POST.                            *)
(***************************************************************************)
\* DELETE has answered a request that has an id and a signed-in user
DeleteDecided ==
  /\ fnRet.stage = "returned"
  /\ fnArg.idGiven /\ fnArg.authenticated /\ fnArg.databaseUserFound

\* the test of POST on the chat DELETE found: the chat exists and its userId is
\* databaseUser.id
PostAllowsOn(storedChat) == storedChat # "" /\ storedChat = userId

\* C30: DELETE removes the chat exactly when it exists and the caller passes the
\* ownership test of POST, and answers forbidden:chat otherwise (also for a chat
\* that does not exist); a caller whose POST to the chat went past the ownership
\* test is not refused by DELETE.
C30_DeleteAgreesWithPost ==
  /\ [](DeleteDecided =>
          /\ fnRet.value.response \in {"deleted", "forbidden:chat"}
          /\ fnRet.value.response = "deleted" <=> PostAllowsOn(fnRet.value.chat)
          /\ fnRet.value.response = "deleted" => chat \in {"", userId})
  /\ [][(pc = "normalize" /\ fnRet.stage = "idle" /\ fnArg.idGiven /\ chat = userId)
          => (fnRet'.stage = "returned" => fnRet'.value.response = "deleted")]_vars

====
